---- MODULE Spec2Model ----
(***************************************************************************)
(* Model of the adaptive prompt-variant population of three_agent_gui     *)
(* (src/src/lib/prompt-evolution/AdaptivePromptSystem.ts).                *)
(*                                                                         *)
(* Variants are JavaScript objects that are shared by reference between    *)
(* the per-role arrays, the currentBest map and suspended async calls, so  *)
(* the model keeps an append-only heap of variant objects; arrays and maps *)
(* hold heap indices (0 = undefined).                                      *)
(*                                                                         *)
(* Scores are exact rationals <<num, den>>; an experiment's overall score  *)
(* is k/ScoreScale.  Prompt texts, temperature and the ledger means other  *)
(* than avgQualityScore do not influence any control decision of the class *)
(* and are left out of the variant record.                                 *)
(***************************************************************************)
EXTENDS Integers, Sequences, FiniteSets, TLC

\* ---------------------------------------------------------------- bounds
MaxExperiments == 3      \* recordExperiment calls in a behaviour
MaxRegister == 2         \* registerBaselinePrompt calls in a behaviour
MaxNow == 1              \* Date.now() ranges over 0..MaxNow

\* ------------------------------------------------- types and input sets
RoleKey == {"boke", "tsukkomi", "director"}
ScoreScale == 20
Scores == {13, 20}       \* qualityMetrics.overall in 1/ScoreScale: 0.65, 1
Strategies == {"mutation", "crossover", "analyze"}

\* EvolutionConfig values a system is constructed with (thresholds in
\* percent).  The fields that only weight random draws (explorationRate,
\* mutationRate, crossoverRate) are covered by drawing every outcome.
Config(maxVariants, autoImprove) ==
    [minSampleSize |-> 2, confidenceThreshold |-> 80, improvementThreshold |-> 5,
     maxVariants |-> maxVariants, maxGenerations |-> 2, autoImprove |-> autoImprove]

Configs == {Config(2, TRUE), Config(3, TRUE), Config(2, FALSE),
            [Config(2, TRUE) EXCEPT !.maxGenerations = 1]}

\* Roles a population is registered for (selectPrompt is called for every
\* role): one role when variants are bred, two when autoImprove is off.
RegisterRoles(cfg) == IF cfg.autoImprove THEN {"boke"} ELSE {"boke", "tsukkomi"}

\* State of the AdaptivePromptSystem object and of its callers' pending calls.
VARIABLES config, heap, variants, keys, currentBest, experiments, pending, now, ret

\* State of the DialogueTab component: the running flag, the values the last
\* render captured, the dialogue log and the invocations of startConversation.
VARIABLES running, rendered, log, loops

\* State around SmartConversationManager: the history a context carries, the
\* manager's strategy object (its type and RoundRobinStrategy.index), the
\* speaker selected last and the number of selections the strategy has made.
VARIABLES history, manager, selected, selections

\* Values handed out by exportState: the values held by callers, the contents
\* each had when it was returned, and the values passed to importState so far.
VARIABLES exported, snapshot, imported

\* Arguments and result of ConversationAnalyzer.determinePhase.
VARIABLES currentTurn, maxTurns, phase

\* The messages handed to ConversationAnalyzer.analyzeConversation, the
\* analyzer's topicKeywords field and the analysis it returned last.
VARIABLES messages, topicKeywords, analyzed

systemVars == <<config, heap, variants, keys, currentBest, experiments, pending, now, ret>>

tabVars == <<running, rendered, log, loops>>

strategyVars == <<history, manager, selected, selections>>

stateVars == <<exported, snapshot, imported>>

phaseVars == <<currentTurn, maxTurns, phase>>

analyzerVars == <<messages, topicKeywords, analyzed>>

\* Everything outside the AdaptivePromptSystem object.
hostVars == <<tabVars, strategyVars, stateVars, phaseVars, analyzerVars>>

vars == <<systemVars, hostVars>>

\* ------------------------------------------------------------ rationals
RECURSIVE GCD(_, _)
GCD(a, b) == IF b = 0 THEN a ELSE GCD(b, a % b)

Rat(n, d) == LET g == GCD(n, d) IN IF g = 0 THEN <<0, 1>> ELSE <<n \div g, d \div g>>

RatLess(x, y) == x[1] * y[2] < y[1] * x[2]

\* x - y < t/100
DiffLessPct(x, y, t) == 100 * (x[1] * y[2] - y[1] * x[2]) < t * x[2] * y[2]

\* ------------------------------------------------------------------ ids
BaselineId(role) == [role |-> role, version |-> 1, kind |-> "baseline", time |-> 0]

NoId == [role |-> "none", version |-> 0, kind |-> "none", time |-> 0]

UnknownId == [role |-> "boke", version |-> 1, kind |-> "unknown", time |-> 0]

\* confidenceInterval is 0 (CIZero) or clamp(1 - 1.96*sqrt(r)), kept as the
\* radicand r = <<num, den>> so that comparisons stay exact.
CIZero == <<0, 0>>

createEmptyPerformance ==
    [totalUses |-> 0, avgQualityScore |-> <<1, 2>>, confidenceInterval |-> CIZero]

Variant(id, role, version, generation, parentId, mutationType, isBaseline) ==
    [id |-> id, roleKey |-> role, version |-> version, generation |-> generation,
     parentId |-> parentId, mutationType |-> mutationType,
     performance |-> createEmptyPerformance,
     experimentCount |-> 0, isActive |-> TRUE, isBaseline |-> isBaseline]

\* ret is the outcome of a selectPrompt call that has not returned to its
\* caller yet: the role asked for, the variant returned (val), whether the call
\* threw (err) and the branch taken (draw).
NoRet == [op |-> "none", role |-> "none", val |-> 0, err |-> FALSE, draw |-> "none"]

\* The variant objects of a role, in array order.
VariantsOf(st, role) == [i \in 1..Len(st.variants[role]) |-> st.heap[st.variants[role][i]]]

Max(a, b) == IF a > b THEN a ELSE b

\* ------------------------------------------------------------------ Init
\* A freshly constructed AdaptivePromptSystem.
SystemInit ==
    /\ heap = <<>>
    /\ variants = [r \in RoleKey |-> <<>>]
    /\ keys = <<>>
    /\ currentBest = [r \in RoleKey |-> 0]
    /\ experiments = <<>>
    /\ pending = <<>>
    /\ now = 0
    /\ ret = NoRet

\* The component before a conversation: useState(false) and the log cleared
\* (the clear button sets log to []).
TabInit ==
    /\ running = FALSE
    /\ rendered = [running |-> FALSE, log |-> <<>>]
    /\ log = <<>>
    /\ loops = <<>>

\* A manager with a fresh strategy and no selection made.
StrategyInit ==
    /\ history = <<>>
    /\ manager = [strategy |-> "reactive", index |-> 0]
    /\ selected = "none"
    /\ selections = 0

\* No value has been exported.
StateInit ==
    /\ exported = <<>>
    /\ snapshot = <<>>
    /\ imported = <<>>

\* No analysis has run.
PhaseInit ==
    /\ currentTurn = 0
    /\ maxTurns = 1
    /\ phase = "none"

\* No analysis at hand.
NoAnalysis ==
    [momentum |-> <<0, 1>>, topicDrift |-> <<0, 1>>, tensionLevel |-> <<0, 1>>,
     currentPhase |-> "none",
     nextSpeakerPrediction |-> [speaker |-> "none", confidence |-> 0]]

\* A ConversationAnalyzer that has analysed nothing.
AnalyzerInit ==
    /\ messages = <<>>
    /\ topicKeywords = {}
    /\ analyzed = NoAnalysis

Init ==
    /\ config \in Configs
    /\ SystemInit
    /\ TabInit
    /\ StrategyInit
    /\ StateInit
    /\ PhaseInit
    /\ AnalyzerInit

\* ------------------------------------------------ registerBaselinePrompt
RegisterCount == Cardinality({i \in 1..Len(heap) : heap[i].isBaseline})

registerBaselinePrompt(role) ==
    /\ ret = NoRet
    /\ RegisterCount < MaxRegister
    /\ LET baseline == Variant(BaselineId(role), role, 1, 1, NoId, "manual", TRUE)
           oid == Len(heap) + 1
       IN /\ heap' = Append(heap, baseline)
          /\ variants' = [variants EXCEPT ![role] = Append(@, oid)]
          /\ keys' = IF \E i \in 1..Len(keys) : keys[i] = role THEN keys ELSE Append(keys, role)
          /\ currentBest' = [currentBest EXCEPT ![role] = oid]
    /\ UNCHANGED <<config, experiments, pending, now, ret, hostVars>>

\* ---------------------------------------------------------- selectPrompt
\* 1000 * ln(n) for n = 1..12, rounded.
LnMilli == <<0, 693, 1099, 1386, 1609, 1792, 1946, 2079, 2197, 2303, 2398, 2485>>

ISqrt(x) == CHOOSE r \in 0..2300 : r * r <= x /\ (r + 1) * (r + 1) > x

RECURSIVE SumCounts(_)
SumCounts(vs) == IF vs = <<>> THEN 0 ELSE Head(vs).experimentCount + SumCounts(Tail(vs))

\* avgReward + sqrt(2 * ln(totalTrials) / experimentCount), in thousandths.
UcbScore(v, totalTrials) ==
    (v.performance.avgQualityScore[1] * 1000) \div v.performance.avgQualityScore[2]
    + ISqrt((2 * LnMilli[totalTrials] * 1000) \div v.experimentCount)

\* Index (into oids) of the first maximiser of the UCB score; the loop keeps
\* the earlier variant on ties (ucbScore > bestScore).
RECURSIVE UcbLoop(_, _, _, _, _)
UcbLoop(h, oids, i, best, totalTrials) ==
    IF i > Len(oids) THEN best
    ELSE IF best = 0 \/ UcbScore(h[oids[i]], totalTrials) > UcbScore(h[best], totalTrials)
         THEN UcbLoop(h, oids, i + 1, oids[i], totalTrials)
         ELSE UcbLoop(h, oids, i + 1, best, totalTrials)

\* Mutant: the cold-start priority is missing and the initial bestVariant
\* (the first active variant) is returned.
selectExplorationVariant_NoColdStart(h, oids) ==
    LET activeVariants == SelectSeq(oids, LAMBDA o : h[o].isActive)
    IN IF activeVariants = <<>> THEN 0 ELSE activeVariants[1]

selectExplorationVariant(h, oids) ==
    LET activeVariants == SelectSeq(oids, LAMBDA o : h[o].isActive)
        cold == {i \in 1..Len(activeVariants) :
                    h[activeVariants[i]].experimentCount < config.minSampleSize}
    IN IF activeVariants = <<>> THEN 0
       ELSE IF cold /= {}
            THEN activeVariants[CHOOSE i \in cold : \A j \in cold : i <= j]
            ELSE UcbLoop(h, activeVariants, 1, 0,
                         SumCounts([i \in 1..Len(activeVariants) |-> h[activeVariants[i]]]))

\* Mutant: the empty-population check is missing.
selectPromptThrows_Never(vs, role) == FALSE

\* selectPrompt throws when the role has no variants.
selectPromptThrows(vs, role) == vs[role] = <<>>

\* The variant selectPrompt returns; explore is the outcome of
\* Math.random() < explorationRate.
selectPromptResult(h, vs, cb, role, explore) ==
    IF explore THEN selectExplorationVariant(h, vs[role])
    ELSE IF cb[role] /= 0 THEN cb[role]
    ELSE IF vs[role] = <<>> THEN 0 ELSE vs[role][1]

selectPrompt(role, explore) ==
    /\ ret = NoRet
    /\ ret' = IF selectPromptThrows(variants, role)
              THEN [NoRet EXCEPT !.op = "selectPrompt", !.role = role, !.err = TRUE]
              ELSE [NoRet EXCEPT !.op = "selectPrompt", !.role = role,
                       !.val = selectPromptResult(heap, variants, currentBest, role, explore),
                       !.draw = IF explore THEN "explore" ELSE "exploit"]
    /\ UNCHANGED <<config, heap, variants, keys, currentBest, experiments, pending, now, hostVars>>

\* The caller takes the result of selectPrompt (or catches its error).
selectPromptReturn ==
    /\ ret /= NoRet
    /\ ret' = NoRet
    /\ UNCHANGED <<config, heap, variants, keys, currentBest, experiments, pending, now, hostVars>>

\* ------------------------------------------------------ recordExperiment
RECURSIVE IndexOfId(_, _, _, _)
IndexOfId(h, oids, id, i) ==
    IF i > Len(oids) THEN 0
    ELSE IF h[oids[i]].id = id THEN oids[i]
    ELSE IndexOfId(h, oids, id, i + 1)

\* Mutant: an id that matches nothing falls back to the first variant.
findVariantById_Fallback(h, vs, ks, id) ==
    IF ks = <<>> THEN 0
    ELSE LET found == IndexOfId(h, vs[Head(ks)], id, 1)
         IN IF found /= 0 THEN found ELSE vs[Head(ks)][1]

\* First variant with the id, searching the roles in Map insertion order.
RECURSIVE findVariantById(_, _, _, _)
findVariantById(h, vs, ks, id) ==
    IF ks = <<>> THEN 0
    ELSE LET found == IndexOfId(h, vs[Head(ks)], id, 1)
         IN IF found /= 0 THEN found ELSE findVariantById(h, vs, Tail(ks), id)

\* Radicand of the standard error, p(1-p)/n; 0 is returned for n < 2.
calculateConfidenceInterval(perf) ==
    LET n == perf.totalUses
        p == perf.avgQualityScore
    IN IF n < 2 THEN CIZero
       ELSE Rat(p[1] * (p[2] - p[1]), p[2] * p[2] * n)

\* confidenceInterval > t/100, i.e. 1.96 * sqrt(r) < 1 - t/100.
ConfidenceAbove(ci, t) == ci[2] /= 0 /\ 196 * 196 * ci[1] < (100 - t) * (100 - t) * ci[2]

\* Mutant: the confidence check is missing.
isSignificantlyBetter_NoConfidence(candidate, current) ==
    ~DiffLessPct(candidate.performance.avgQualityScore,
                 current.performance.avgQualityScore, config.improvementThreshold)

isSignificantlyBetter(candidate, current) ==
    IF DiffLessPct(candidate.performance.avgQualityScore,
                   current.performance.avgQualityScore, config.improvementThreshold)
    THEN FALSE
    ELSE ConfidenceAbove(candidate.performance.confidenceInterval, config.confidenceThreshold)

\* reduce((best, v) => v.score > best.score ? v : best) over oids.
RECURSIVE ReduceBest(_, _, _, _)
ReduceBest(h, oids, i, best) ==
    IF i > Len(oids) THEN best
    ELSE IF RatLess(h[best].performance.avgQualityScore, h[oids[i]].performance.avgQualityScore)
         THEN ReduceBest(h, oids, i + 1, oids[i])
         ELSE ReduceBest(h, oids, i + 1, best)

\* The currentBest map after updateBestPrompt(role).
updateBestPrompt(h, vs, cb, role) ==
    LET eligibleVariants == SelectSeq(vs[role],
            LAMBDA o : h[o].isActive /\ h[o].experimentCount >= config.minSampleSize)
    IN IF eligibleVariants = <<>> THEN cb
       ELSE LET best == ReduceBest(h, eligibleVariants, 2, eligibleVariants[1])
            IN IF cb[role] = 0 \/ isSignificantlyBetter(h[best], h[cb[role]])
               THEN [cb EXCEPT ![role] = best]
               ELSE cb

\* The variant object after the ledger update of updateVariantPerformance.
UpdatedVariant(v, overall) ==
    LET n == v.performance.totalUses
        avg == v.performance.avgQualityScore
        perf1 == [v.performance EXCEPT
                    !.totalUses = n + 1,
                    !.avgQualityScore =
                        Rat(avg[1] * n * ScoreScale + overall * avg[2],
                            avg[2] * ScoreScale * (n + 1))]
        perf2 == IF perf1.totalUses >= config.minSampleSize
                 THEN [perf1 EXCEPT !.confidenceInterval = calculateConfidenceInterval(perf1)]
                 ELSE perf1
    IN [v EXCEPT !.performance = perf2, !.experimentCount = v.experimentCount + 1]

\* Mutant: the result is booked on every variant of the role.
updateVariantPerformance_WholeRole(h, vs, cb, oid, overall) ==
    LET role == h[oid].roleKey
        h1 == [o \in 1..Len(h) |->
                  IF \E k \in 1..Len(vs[role]) : vs[role][k] = o
                  THEN UpdatedVariant(h[o], overall) ELSE h[o]]
    IN [heap |-> h1, currentBest |-> updateBestPrompt(h1, vs, cb, role)]

\* Heap and currentBest after updateVariantPerformance(variant, result).
updateVariantPerformance(h, vs, cb, oid, overall) ==
    LET h1 == [h EXCEPT ![oid] = UpdatedVariant(h[oid], overall)]
    IN [heap |-> h1, currentBest |-> updateBestPrompt(h1, vs, cb, h1[oid].roleKey)]

\* ------------------------------------------------------- breeding helpers
ChildId(role, version, kind, t) == [role |-> role, version |-> version, kind |-> kind, time |-> t]

\* Mutant: the child stays in the generation of its parent.
mutateVariant_SameGeneration(parent, t) ==
    Variant(ChildId(parent.roleKey, parent.version + 1, "mut", t), parent.roleKey,
            parent.version + 1, parent.generation, parent.id, "mutation", FALSE)

\* t is the value of Date.now() when the child is built.
mutateVariant(parent, t) ==
    Variant(ChildId(parent.roleKey, parent.version + 1, "mut", t), parent.roleKey,
            parent.version + 1, parent.generation + 1, parent.id, "mutation", FALSE)

\* sort((a, b) => b.score - a.score)[0]: the first variant of maximal score.
RECURSIVE ReduceFirstMax(_, _, _, _)
ReduceFirstMax(h, oids, i, best) ==
    IF i > Len(oids) THEN best
    ELSE IF RatLess(h[best].performance.avgQualityScore, h[oids[i]].performance.avgQualityScore)
         THEN ReduceFirstMax(h, oids, i + 1, oids[i])
         ELSE ReduceFirstMax(h, oids, i + 1, best)

\* Mutant: any other variant of the role is taken as a partner.
goodVariants_AnyPartner(h, vs, parent, role) ==
    SelectSeq(vs[role], LAMBDA o : h[o].id /= parent.id)

\* The crossover partners: the other variants of the role scoring above 0.6.
goodVariants(h, vs, parent, role) ==
    SelectSeq(vs[role],
        LAMBDA o : h[o].id /= parent.id /\ RatLess(<<3, 5>>, h[o].performance.avgQualityScore))

\* Mutant: the child points back to the crossover partner.
crossoverVariants_ParentOther(h, vs, parent, role, t) ==
    LET good == goodVariants(h, vs, parent, role)
    IN IF good = <<>> THEN <<>>
       ELSE LET other == h[ReduceFirstMax(h, good, 2, good[1])]
                version == Max(parent.version, other.version) + 1
            IN <<Variant(ChildId(role, version, "cross", t), role, version,
                         Max(parent.generation, other.generation) + 1,
                         other.id, "crossover", FALSE)>>

\* <<>> for null, <<child>> otherwise.
crossoverVariants(h, vs, parent, role, t) ==
    LET good == goodVariants(h, vs, parent, role)
    IN IF good = <<>> THEN <<>>
       ELSE LET other == h[ReduceFirstMax(h, good, 2, good[1])]
                version == Max(parent.version, other.version) + 1
            IN <<Variant(ChildId(role, version, "cross", t), role, version,
                         Max(parent.generation, other.generation) + 1,
                         parent.id, "crossover", FALSE)>>

analyzeAndImprove(parent, t) ==
    Variant(ChildId(parent.roleKey, parent.version + 1, "improved", t), parent.roleKey,
            parent.version + 1, parent.generation + 1, parent.id, "auto", FALSE)

\* reduce((worst, v) => v.score < worst.score ? v : worst) over oids.
RECURSIVE ReduceWorst(_, _, _, _)
ReduceWorst(h, oids, i, worst) ==
    IF i > Len(oids) THEN worst
    ELSE IF RatLess(h[oids[i]].performance.avgQualityScore, h[worst].performance.avgQualityScore)
         THEN ReduceWorst(h, oids, i + 1, oids[i])
         ELSE ReduceWorst(h, oids, i + 1, worst)

\* Mutant: baselines are not excluded from the candidates.
pruneWorstVariant_AnyVariant(h, oids) ==
    IF Len(oids) <= 1 THEN oids
    ELSE LET worst == ReduceWorst(h, oids, 2, oids[1])
         IN SelectSeq(oids, LAMBDA o : o /= worst)

\* The array of the role after pruneWorstVariant(role).
pruneWorstVariant(h, oids) ==
    IF Len(oids) <= 1 THEN oids
    ELSE LET candidates == SelectSeq(oids, LAMBDA o : ~h[o].isBaseline)
         IN IF candidates = <<>> THEN oids
            ELSE LET worst == ReduceWorst(h, candidates, 2, candidates[1])
                 IN SelectSeq(oids, LAMBDA o : o /= worst)

\* Heap and arrays after addVariant(variant).
addVariant(st, variant) ==
    [heap |-> Append(st.heap, variant),
     variants |-> [st.variants EXCEPT ![variant.roleKey] = Append(@, Len(st.heap) + 1)]]

\* generateImprovedVariant(parent): the arrays after the synchronous prune,
\* the mechanism drawn ("none" when the generation limit returns first), the
\* value the returned promise resolves to (<<>> = null) and the number of
\* microtask ticks until the awaiting caller resumes (1 for a plain value, 3
\* when the promise of analyzeAndImprove is returned).
generateImprovedVariant(h, vs, oid, strategy, t) ==
    LET parent == h[oid]
        role == parent.roleKey
    IN IF parent.generation >= config.maxGenerations
       THEN [variants |-> vs, strategy |-> "none", improved |-> <<>>, ticks |-> 1]
       ELSE LET vs1 == IF Len(vs[role]) >= config.maxVariants
                       THEN [vs EXCEPT ![role] = pruneWorstVariant(h, vs[role])]
                       ELSE vs
            IN CASE strategy = "mutation" ->
                      [variants |-> vs1, strategy |-> strategy,
                       improved |-> <<mutateVariant(parent, t)>>, ticks |-> 1]
                 [] strategy = "crossover" ->
                      [variants |-> vs1, strategy |-> strategy,
                       improved |-> crossoverVariants(h, vs1, parent, role, t), ticks |-> 1]
                 [] OTHER ->
                      [variants |-> vs1, strategy |-> strategy,
                       improved |-> <<analyzeAndImprove(parent, t)>>, ticks |-> 3]

\* Second part of checkAndImprove: every third experiment breeds a mutant.
DiversityMutant(st, oid, t) ==
    IF st.heap[oid].experimentCount >= 3 /\ st.heap[oid].experimentCount % 3 = 0
    THEN addVariant(st, mutateVariant(st.heap[oid], t))
    ELSE st

\* checkAndImprove(variant) up to its first suspension: heap, arrays and the
\* suspended continuations afterwards.
checkAndImprove(h, vs, pend, oid, strategy, t) ==
    IF h[oid].experimentCount < 1
    THEN [heap |-> h, variants |-> vs, pending |-> pend]
    ELSE IF RatLess(h[oid].performance.avgQualityScore, <<7, 10>>)
         THEN LET g == generateImprovedVariant(h, vs, oid, strategy, t)
              IN [heap |-> h, variants |-> g.variants,
                  pending |-> Append(pend, [variant |-> oid, strategy |-> g.strategy,
                                            improved |-> g.improved, ticks |-> g.ticks])]
         ELSE LET st == DiversityMutant([heap |-> h, variants |-> vs], oid, t)
              IN [heap |-> st.heap, variants |-> st.variants, pending |-> pend]

\* Whether checkAndImprove draws the improvement strategy (Math.random()).
DrawsStrategy(v) ==
    /\ v.experimentCount >= 1
    /\ RatLess(v.performance.avgQualityScore, <<7, 10>>)
    /\ v.generation < config.maxGenerations

\* The effect of a recordExperiment(result) call on the system.
recordExperimentCall(id, overall, strategy) ==
    /\ experiments' = Append(experiments, [variantId |-> id, overall |-> overall])
    /\ LET oid == findVariantById(heap, variants, keys, id)
       IN IF oid = 0
          THEN UNCHANGED <<heap, variants, currentBest, pending>>
          ELSE LET u == updateVariantPerformance(heap, variants, currentBest, oid, overall)
                   c == IF config.autoImprove
                        THEN checkAndImprove(u.heap, variants, pending, oid, strategy, now)
                        ELSE [heap |-> u.heap, variants |-> variants, pending |-> pending]
               IN /\ heap' = c.heap
                  /\ variants' = c.variants
                  /\ currentBest' = u.currentBest
                  /\ pending' = c.pending

recordExperiment(id, overall, strategy) ==
    /\ ret = NoRet
    /\ Len(experiments) < MaxExperiments
    /\ recordExperimentCall(id, overall, strategy)
    /\ UNCHANGED <<config, keys, now, ret, hostVars>>

\* A suspended checkAndImprove may resume once every continuation queued
\* before it with no more ticks to wait has run.
CanResume(i) == \A j \in 1..(i - 1) : pending[j].ticks > pending[i].ticks

\* checkAndImprove after `await this.generateImprovedVariant(variant)`.
checkAndImproveResume(i) ==
    /\ ret = NoRet
    /\ i \in 1..Len(pending)
    /\ CanResume(i)
    /\ LET e == pending[i]
           st0 == [heap |-> heap, variants |-> variants]
           st1 == IF e.improved /= <<>> THEN addVariant(st0, e.improved[1]) ELSE st0
           st2 == DiversityMutant(st1, e.variant, now)
       IN /\ heap' = st2.heap
          /\ variants' = st2.variants
    /\ pending' = [j \in 1..(Len(pending) - 1) |-> IF j < i THEN pending[j] ELSE pending[j + 1]]
    /\ UNCHANGED <<config, keys, currentBest, experiments, now, ret, hostVars>>

\* The wall clock advances by a millisecond.
Tick ==
    /\ ret = NoRet
    /\ now < MaxNow
    /\ now' = now + 1
    /\ UNCHANGED <<config, heap, variants, keys, currentBest, experiments, pending, ret, hostVars>>

\* Ids a caller may pass: the id of any variant ever created, or a foreign id.
KnownIds == {heap[i].id : i \in 1..Len(heap)}

Next ==
    \/ \E role \in RegisterRoles(config) : registerBaselinePrompt(role)
    \/ \E role \in RoleKey, explore \in BOOLEAN : selectPrompt(role, explore)
    \/ selectPromptReturn
    \/ \E id \in KnownIds \cup {UnknownId}, overall \in Scores, strategy \in Strategies :
          recordExperiment(id, overall, strategy)
    \/ \E i \in 1..Len(pending) : checkAndImproveResume(i)
    \/ Tick

Spec == Init /\ [][Next]_vars

\* ------------------------------------------- experiments back to back
\* A system with maxVariants 2 and mutationRate 0 (the mechanism draw is
\* crossover or heuristic repair) whose caller records up to MaxBurst
\* experiments.
MaxBurst == 4

BurstStrategies == {"crossover", "analyze"}

InitBurst ==
    /\ config = Config(2, TRUE)
    /\ SystemInit
    /\ TabInit
    /\ StrategyInit
    /\ StateInit
    /\ PhaseInit
    /\ AnalyzerInit

recordExperimentBurst(id, overall, strategy) ==
    /\ ret = NoRet
    /\ Len(experiments) < MaxBurst
    /\ recordExperimentCall(id, overall, strategy)
    /\ UNCHANGED <<config, keys, now, ret, hostVars>>

\* The baseline is registered once.
NextBurst ==
    \/ (heap = <<>> /\ registerBaselinePrompt("boke"))
    \/ \E id \in KnownIds, overall \in Scores, strategy \in BurstStrategies :
          recordExperimentBurst(id, overall, strategy)
    \/ \E i \in 1..Len(pending) : checkAndImproveResume(i)

SpecBurst == InitBurst /\ [][NextBurst]_vars

\* ======================================================================
\* DialogueTab: the conversation loop of startConversation
\* (src/src/components/DialogueTab.tsx)
\* ======================================================================
MaxInvocations == 2      \* startConversation calls in a behaviour
MaxTurns == 1            \* dialogueState.turns ranges over 1..MaxTurns
MaxCalls == 3            \* callAgent calls in a behaviour

\* The configuration DialogueTab constructs its system with.
TabConfig ==
    [minSampleSize |-> 2, confidenceThreshold |-> 80, improvementThreshold |-> 5,
     maxVariants |-> 15, maxGenerations |-> 10, autoImprove |-> TRUE]

\* Values of dialogueState.order.
Orders == {<<"director", "boke", "tsukkomi">>}

\* The system after the mount effect has registered the three baselines.
Mounted ==
    LET roles == <<"boke", "tsukkomi", "director">>
        at(r) == CHOOSE i \in 1..3 : roles[i] = r
    IN [heap |-> [i \in 1..3 |-> Variant(BaselineId(roles[i]), roles[i], 1, 1, NoId, "manual", TRUE)],
        variants |-> [r \in RoleKey |-> <<at(r)>>],
        keys |-> roles,
        currentBest |-> [r \in RoleKey |-> at(r)]]

InitTab ==
    /\ config = TabConfig
    /\ heap = Mounted.heap
    /\ variants = Mounted.variants
    /\ keys = Mounted.keys
    /\ currentBest = Mounted.currentBest
    /\ experiments = <<>>
    /\ pending = <<>>
    /\ now = 0
    /\ ret = NoRet
    /\ TabInit
    /\ StrategyInit
    /\ StateInit
    /\ PhaseInit
    /\ AnalyzerInit

\* A log entry: the speaker, whether the text is an error message, the
\* length of the text and the topic words it contains.
Utterance(who, isError, len, words) ==
    [who |-> who, error |-> isError, len |-> len, words |-> words]

\* The entry of a step: a long reply on the topic, or the short error text
\* of the catch block ('【エラー】' + e.message).
Entry(who, isError) ==
    IF isError THEN Utterance(who, TRUE, 20, {}) ELSE Utterance(who, FALSE, 100, {1, 2})

\* Some invocation is inside a task (a synchronous section, or the
\* microtasks after `await selectNextSpeaker`), so no other task can run.
SyncRunning == \E l \in 1..Len(loops) : loops[l].pc \in {"select", "speaker"}

\* React renders the component: later handlers see the committed state.
Render ==
    /\ ~SyncRunning
    /\ rendered /= [running |-> running, log |-> log]
    /\ rendered' = [running |-> running, log |-> log]
    /\ UNCHANGED <<running, log, loops, systemVars, strategyVars, stateVars, phaseVars, analyzerVars>>

\* `if (running) return` on the value the handler's closure captured.
startConversationGuard == ~rendered.running

\* startConversation up to the first loop iteration; mode and adaptive are
\* the captured conversationMode and adaptivePromptsEnabled.
startConversation(mode, adaptive, order, turns) ==
    /\ ~SyncRunning
    /\ Len(loops) < MaxInvocations
    /\ startConversationGuard
    /\ running' = TRUE
    /\ LET currentLog == IF rendered.log = <<>> THEN <<Entry("director", FALSE)>>
                         ELSE rendered.log
       IN /\ log' = IF rendered.log = <<>> THEN currentLog ELSE log
          /\ loops' = Append(loops, [pc |-> "select", mode |-> mode, adaptive |-> adaptive,
                                     order |-> order, turns |-> turns, i |-> 0, j |-> 1,
                                     utteranceCount |-> 0,
                                     currentLog |-> currentLog, role |-> "none", variant |-> 0])
    /\ UNCHANGED <<rendered, systemVars, strategyVars, stateVars, phaseVars, analyzerVars>>

\* callAgent calls a loop has made.
Calls(loop) ==
    IF loop.mode = "smart"
    THEN loop.utteranceCount + (IF loop.pc = "await" THEN 1 ELSE 0)
    ELSE loop.i * Len(loop.order) + loop.j - (IF loop.pc \in {"select", "thrown"} THEN 1 ELSE 0)

RECURSIVE TotalCalls(_)
TotalCalls(ls) == IF ls = <<>> THEN 0 ELSE Calls(Head(ls)) + TotalCalls(Tail(ls))

\* The head of a loop iteration up to `await callAgent(...)`: the role is
\* taken from the order and, with adaptive prompts, a variant is selected.
stepSelect(l, explore) ==
    /\ l \in 1..Len(loops)
    /\ loops[l].mode = "classic"
    /\ loops[l].pc = "select"
    /\ TotalCalls(loops) < MaxCalls
    /\ LET loop == loops[l]
           role == loop.order[loop.j]
       IN loops' = [loops EXCEPT ![l] =
              IF loop.adaptive /\ selectPromptThrows(variants, role)
              THEN [loop EXCEPT !.pc = "thrown", !.role = role]
              ELSE [loop EXCEPT !.pc = "await", !.role = role,
                       !.variant = IF loop.adaptive
                                   THEN selectPromptResult(heap, variants, currentBest, role, explore)
                                   ELSE 0]]
    /\ UNCHANGED <<running, rendered, log, systemVars, strategyVars, stateVars, phaseVars, analyzerVars>>

\* The loop after an iteration: the next role, the next turn, or the end.
NextPosition(loop) ==
    IF loop.j < Len(loop.order) THEN [loop EXCEPT !.pc = "select", !.j = @ + 1]
    ELSE IF loop.i + 1 < loop.turns THEN [loop EXCEPT !.pc = "select", !.i = @ + 1, !.j = 1]
    ELSE [loop EXCEPT !.pc = "done"]

\* callAgent resolves: the utterance is appended and the experiment recorded.
callAgentReturns(l, overall, strategy) ==
    /\ ~SyncRunning
    /\ l \in 1..Len(loops)
    /\ loops[l].mode = "classic"
    /\ loops[l].pc = "await"
    /\ pending = <<>>
    /\ LET loop == loops[l]
           currentLog == Append(loop.currentLog, Entry(loop.role, FALSE))
           after == NextPosition([loop EXCEPT !.currentLog = currentLog])
       IN /\ log' = currentLog
          /\ loops' = [loops EXCEPT ![l] = after]
          /\ running' = IF after.pc = "done" THEN FALSE ELSE running
          /\ IF loop.adaptive
             THEN recordExperimentCall(heap[loop.variant].id, overall, strategy)
             ELSE UNCHANGED <<heap, variants, currentBest, experiments, pending>>
    /\ UNCHANGED <<config, keys, now, ret, rendered, strategyVars, stateVars, phaseVars, analyzerVars>>

\* Mutant: the failed call is charged to the variant as an experiment.
callAgentFails_Recorded(l) ==
    /\ ~SyncRunning
    /\ l \in 1..Len(loops)
    /\ loops[l].mode = "classic"
    /\ loops[l].pc = "await"
    /\ pending = <<>>
    /\ LET loop == loops[l]
           currentLog == Append(loop.currentLog, Entry(loop.role, TRUE))
           after == NextPosition([loop EXCEPT !.currentLog = currentLog])
       IN /\ log' = currentLog
          /\ loops' = [loops EXCEPT ![l] = after]
          /\ running' = IF after.pc = "done" THEN FALSE ELSE running
          /\ IF loop.adaptive
             THEN recordExperimentCall(heap[loop.variant].id, 0, "mutation")
             ELSE UNCHANGED <<heap, variants, currentBest, experiments, pending>>
    /\ UNCHANGED <<config, keys, now, ret, rendered, strategyVars, stateVars, phaseVars, analyzerVars>>

\* callAgent throws: the catch block appends an error entry for the role.
callAgentFails(l) ==
    /\ ~SyncRunning
    /\ l \in 1..Len(loops)
    /\ loops[l].mode = "classic"
    /\ loops[l].pc = "await"
    /\ pending = <<>>
    /\ LET loop == loops[l]
           currentLog == Append(loop.currentLog, Entry(loop.role, TRUE))
           after == NextPosition([loop EXCEPT !.currentLog = currentLog])
       IN /\ log' = currentLog
          /\ loops' = [loops EXCEPT ![l] = after]
          /\ running' = IF after.pc = "done" THEN FALSE ELSE running
    /\ UNCHANGED <<rendered, systemVars, strategyVars, stateVars, phaseVars, analyzerVars>>

\* A suspended checkAndImprove resumes while the loops await.
tabResume(i) == (\A l \in 1..Len(loops) : loops[l].pc /= "select") /\ checkAndImproveResume(i)

NextTab ==
    \/ \E adaptive \in BOOLEAN, order \in Orders, turns \in 1..MaxTurns :
          startConversation("classic", adaptive, order, turns)
    \/ \E l \in 1..Len(loops), explore \in BOOLEAN : stepSelect(l, explore)
    \/ \E l \in 1..Len(loops), overall \in Scores, strategy \in Strategies :
          callAgentReturns(l, overall, strategy)
    \/ \E l \in 1..Len(loops) : callAgentFails(l)
    \/ \E i \in 1..Len(pending) : tabResume(i)
    \/ Render

SpecTab == InitTab /\ [][NextTab]_vars

\* ======================================================================
\* SmartConversationManager and its selection strategies
\* (src/unnamed/part_001, ConversationManager.ts)
\* ======================================================================
MaxTail == 2             \* free messages at the end of a history
MaxFiller == 10          \* calm messages of the duo before them
MaxSelections == 4       \* selectNextSpeaker calls in a behaviour

TopicWords == {1, 2}     \* the words of context.topic
Lengths == {0, 100}      \* text.length of a message

\* A message: the speaker, the length of the text and the topic words the
\* text contains.
Message == [who : RoleKey, len : Lengths, words : SUBSET TopicWords]

RECURSIVE SeqsUpTo(_, _)
SeqsUpTo(S, n) ==
    IF n = 0 THEN {<<>>}
    ELSE LET shorter == SeqsUpTo(S, n - 1)
         IN shorter \cup {Append(q, x) : q \in shorter, x \in S}

\* k long on-topic messages, boke and tsukkomi taking turns.
Filler(k) ==
    [i \in 1..k |-> [who |-> IF i % 2 = 1 THEN "boke" ELSE "tsukkomi",
                     len |-> 100, words |-> TopicWords]]

Histories == {Filler(k) \o tail : k \in 0..MaxFiller, tail \in SeqsUpTo(Message, MaxTail)}

StrategyTypes == {"round_robin", "reactive", "balanced"}

InitStrategy ==
    /\ config = TabConfig
    /\ SystemInit
    /\ TabInit
    /\ history \in Histories
    /\ manager \in [strategy : StrategyTypes, index : {0}]
    /\ selected = "none"
    /\ selections = 0
    /\ StateInit
    /\ PhaseInit
    /\ AnalyzerInit

\* history.slice(-n)
Slice(h, n) == IF Len(h) <= n THEN h ELSE SubSeq(h, Len(h) - n + 1, Len(h))

RECURSIVE SumLen(_)
SumLen(h) == IF h = <<>> THEN 0 ELSE Head(h).len + SumLen(Tail(h))

NaN == <<0, 0>>

\* min(max(recentAvg / avgLength, 0), 1) as a rational; NaN for 0/0.
calculateMomentum(h) ==
    IF Len(h) < 2 THEN <<1, 2>>
    ELSE LET total == SumLen(h)
             recent == SumLen(Slice(h, 2))
         IN IF total = 0 THEN NaN
            ELSE IF recent * Len(h) > 2 * total THEN <<1, 1>>
            ELSE Rat(recent * Len(h), 2 * total)

\* Mutant: the drift is 0 only when every topic word is found.
calculateTopicDriftFor_AllWords(topicWords, h) ==
    IF Len(h) = 0 THEN <<0, 1>>
    ELSE IF \A w \in topicWords : \E i \in 1..Len(h) : w \in h[i].words THEN <<0, 1>>
    ELSE <<1, 1>>

\* 1 - matchCount / topicWords.length
calculateTopicDriftFor(topicWords, h) ==
    IF Len(h) = 0 THEN <<0, 1>>
    ELSE LET matchCount == Cardinality({w \in topicWords : \E i \in 1..Len(h) : w \in h[i].words})
         IN Rat(Cardinality(topicWords) - matchCount, Cardinality(topicWords))

\* calculateTopicDrift(context.topic, recentHistory) for the topic TopicWords
calculateTopicDrift(h) == calculateTopicDriftFor(TopicWords, h)

\* In percent.
calculateTension(h) ==
    IF Len(h) < 2 THEN 30
    ELSE IF SumLen(h) < 50 * Len(h) THEN 80
    ELSE IF SumLen(h) < 100 * Len(h) THEN 50
    ELSE 30

\* Messages after the last director message.
RECURSIVE TurnsSinceDirector(_, _)
TurnsSinceDirector(h, i) ==
    IF i < 1 \/ h[i].who = "director" THEN 0 ELSE 1 + TurnsSinceDirector(h, i - 1)

\* analyzeConversation(context) for a context with the given topic words
analyzeContext(topicWords, h) ==
    [momentum |-> calculateMomentum(Slice(h, 5)),
     topicDrift |-> calculateTopicDriftFor(topicWords, Slice(h, 5)),
     tensionLevel |-> calculateTension(Slice(h, 5)),
     lastSpeaker |-> IF Len(h) > 0 THEN h[Len(h)].who ELSE "null",
     turnsSinceDirector |-> TurnsSinceDirector(h, Len(h))]

analyzeConversation(h) == analyzeContext(TopicWords, h)

\* Mutant: the director steps in after more than 3 turns already.
shouldDirectorIntervene_Early(analysis) ==
    \/ RatLess(<<17, 20>>, analysis.topicDrift)
    \/ analysis.tensionLevel > 90
    \/ (analysis.momentum /= NaN /\ RatLess(analysis.momentum, <<1, 5>>))
    \/ analysis.turnsSinceDirector > 3

shouldDirectorIntervene(analysis) ==
    \/ RatLess(<<17, 20>>, analysis.topicDrift)
    \/ analysis.tensionLevel > 90
    \/ (analysis.momentum /= NaN /\ RatLess(analysis.momentum, <<1, 5>>))
    \/ analysis.turnsSinceDirector > 10

\* ReactiveStrategy.selectSpeaker; coin is Math.random() > 0.5.
ReactiveSelect(analysis, coin) ==
    IF shouldDirectorIntervene(analysis) THEN "director"
    ELSE IF analysis.lastSpeaker = "boke" THEN "tsukkomi"
    ELSE IF analysis.lastSpeaker = "tsukkomi" THEN "boke"
    ELSE IF analysis.lastSpeaker = "director" THEN (IF coin THEN "boke" ELSE "tsukkomi")
    ELSE "director"

Count(h, role) == Cardinality({i \in 1..Len(h) : h[i].who = role})

\* The forEach over Object.entries(counts): roles <<boke, tsukkomi, director>>
\* from position i, with the minimum and the selection so far.
RECURSIVE BalancedLoop(_, _, _, _, _)
BalancedLoop(h, lastSpeaker, i, minCount, sel) ==
    LET roles == <<"boke", "tsukkomi", "director">>
    IN IF i > 3 THEN sel
       ELSE IF roles[i] /= lastSpeaker /\ (minCount = -1 \/ Count(h, roles[i]) < minCount)
            THEN BalancedLoop(h, lastSpeaker, i + 1, Count(h, roles[i]), roles[i])
            ELSE BalancedLoop(h, lastSpeaker, i + 1, minCount, sel)

\* Mutant: the previous speaker is not excluded.
BalancedSelect_AnyRole(h, analysis) == BalancedLoop(h, "null", 1, -1, "boke")

\* BalancedStrategy.selectSpeaker; minCount -1 stands for Infinity.
BalancedSelect(h, analysis) == BalancedLoop(h, analysis.lastSpeaker, 1, -1, "boke")

\* Mutant: the cycle starts with boke.
RoundRobinOrder_BokeFirst == <<"boke", "tsukkomi", "director">>

\* RoundRobinStrategy.order
RoundRobinOrder == <<"director", "boke", "tsukkomi">>

\* this.strategy.selectSpeaker(context, analysis) of manager mgr on history
\* h: the speaker and the manager afterwards.
selectSpeaker(mgr, h, coin) ==
    LET analysis == analyzeConversation(h)
    IN CASE mgr.strategy = "reactive" ->
              [speaker |-> ReactiveSelect(analysis, coin), manager |-> mgr]
         [] mgr.strategy = "balanced" ->
              [speaker |-> BalancedSelect(h, analysis), manager |-> mgr]
         [] OTHER ->
              [speaker |-> RoundRobinOrder[mgr.index + 1],
               manager |-> [mgr EXCEPT !.index = (@ + 1) % Len(RoundRobinOrder)]]

\* selectNextSpeaker(context): the strategy is applied to the analysis.
selectNextSpeaker(coin) ==
    /\ selections < MaxSelections
    /\ LET r == selectSpeaker(manager, history, coin)
       IN /\ selected' = r.speaker
          /\ manager' = r.manager
    /\ selections' = selections + 1
    /\ UNCHANGED <<history, systemVars, tabVars, stateVars, phaseVars, analyzerVars>>

NextStrategy == \E coin \in BOOLEAN : selectNextSpeaker(coin)

SpecStrategy == InitStrategy /\ [][NextStrategy]_vars

\* ======================================================================
\* DialogueTab: the smart mode loop of startConversation
\* (src/src/components/DialogueTab.tsx)
\* ======================================================================
\* The log page.tsx constructs dialogueState with: the moderator's
\* announcement of the topic and two short remarks off the topic words.
InitialLog ==
    <<Utterance("director", FALSE, 28, TopicWords),
      Utterance("boke", FALSE, 17, {}),
      Utterance("tsukkomi", FALSE, 15, {})>>

\* The log a one-turn run in the order director, boke, tsukkomi leaves
\* behind when it started from a cleared log.
EarlierRunLog ==
    <<Entry("director", FALSE), Entry("director", FALSE),
      Entry("boke", FALSE), Entry("tsukkomi", FALSE)>>

\* Logs a run starts from: cleared, as constructed, after an earlier run.
StartLogs == {<<>>, InitialLog, EarlierRunLog}

\* Texts callAgent returns in smart mode: a long reply on the topic and a
\* long reply off the topic.
Replies == {[len |-> 100, words |-> TopicWords], [len |-> 100, words |-> {}]}

\* The mounted component with some log, before any conversation.
InitRun ==
    /\ config = TabConfig
    /\ heap = Mounted.heap
    /\ variants = Mounted.variants
    /\ keys = Mounted.keys
    /\ currentBest = Mounted.currentBest
    /\ experiments = <<>>
    /\ pending = <<>>
    /\ now = 0
    /\ ret = NoRet
    /\ running = FALSE
    /\ log \in StartLogs
    /\ rendered = [running |-> FALSE, log |-> log]
    /\ loops = <<>>
    /\ history = <<>>
    /\ manager \in [strategy : StrategyTypes, index : {0}]
    /\ selected = "none"
    /\ selections = 0
    /\ StateInit
    /\ PhaseInit
    /\ AnalyzerInit

\* The head of a smart iteration up to `await selectNextSpeaker(context)`:
\* the manager's strategy proposes a speaker for the history currentLog.
smartSelectSpeaker(l, coin) ==
    /\ l \in 1..Len(loops)
    /\ loops[l].mode = "smart"
    /\ loops[l].pc = "select"
    /\ TotalCalls(loops) < MaxCalls
    /\ LET r == selectSpeaker(manager, loops[l].currentLog, coin)
       IN /\ loops' = [loops EXCEPT ![l] = [@ EXCEPT !.pc = "speaker", !.role = r.speaker]]
          /\ manager' = r.manager
    /\ UNCHANGED <<running, rendered, log, systemVars, history, selected, selections,
                   stateVars, phaseVars, analyzerVars>>

\* speakersInCurrentTurn: currentLog.slice(currentTurnStart + 1).map(u => u.who)
speakersInCurrentTurn(loop) ==
    LET currentTurnStart == (loop.utteranceCount \div 3) * 3
    IN {loop.currentLog[k].who : k \in (currentTurnStart + 2)..Len(loop.currentLog)}

\* The values nextSpeaker can have after the once-per-turn replacement; the
\* replacement is drawn with Math.random() from availableSpeakers.
NextSpeakers(loop, strategy) ==
    LET availableSpeakers == RoleKey \ speakersInCurrentTurn(loop)
    IN IF loop.role \in speakersInCurrentTurn(loop) /\ strategy = "reactive"
          /\ availableSpeakers /= {}
       THEN availableSpeakers
       ELSE {loop.role}

\* The iteration after `await selectNextSpeaker(context)` up to
\* `await callAgent(...)`; continuations queued before with one tick to wait
\* have run by then.
smartStepSelect(l, pick, explore) ==
    /\ l \in 1..Len(loops)
    /\ loops[l].mode = "smart"
    /\ loops[l].pc = "speaker"
    /\ \A j \in 1..Len(pending) : pending[j].ticks > 1
    /\ pick \in NextSpeakers(loops[l], manager.strategy)
    /\ LET loop == loops[l]
       IN loops' = [loops EXCEPT ![l] =
              IF loop.adaptive /\ selectPromptThrows(variants, pick)
              THEN [loop EXCEPT !.pc = "thrown", !.role = pick]
              ELSE [loop EXCEPT !.pc = "await", !.role = pick,
                       !.variant = IF loop.adaptive
                                   THEN selectPromptResult(heap, variants, currentBest, pick, explore)
                                   ELSE 0]]
    /\ UNCHANGED <<running, rendered, log, systemVars, strategyVars, stateVars, phaseVars, analyzerVars>>

\* utteranceCount++ and the test of the while loop.
NextUtterance(loop) ==
    LET n == loop.utteranceCount + 1
    IN [loop EXCEPT !.utteranceCount = n,
                    !.pc = IF n < loop.turns * 3 THEN "select" ELSE "done"]

\* callAgent resolves in smart mode: the utterance is appended and counted
\* and the experiment recorded.
smartCallAgentReturns(l, reply, overall, strategy) ==
    /\ ~SyncRunning
    /\ l \in 1..Len(loops)
    /\ loops[l].mode = "smart"
    /\ loops[l].pc = "await"
    /\ pending = <<>>
    /\ LET loop == loops[l]
           currentLog == Append(loop.currentLog,
                                Utterance(loop.role, FALSE, reply.len, reply.words))
           after == NextUtterance([loop EXCEPT !.currentLog = currentLog])
       IN /\ log' = currentLog
          /\ loops' = [loops EXCEPT ![l] = after]
          /\ running' = IF after.pc = "done" THEN FALSE ELSE running
          /\ IF loop.adaptive
             THEN recordExperimentCall(heap[loop.variant].id, overall, strategy)
             ELSE UNCHANGED <<heap, variants, currentBest, experiments, pending>>
    /\ UNCHANGED <<config, keys, now, ret, rendered, strategyVars, stateVars, phaseVars, analyzerVars>>

\* Mutant: the catch block does not count the error utterance.
smartCallAgentFails_Uncounted(l) ==
    /\ ~SyncRunning
    /\ l \in 1..Len(loops)
    /\ loops[l].mode = "smart"
    /\ loops[l].pc = "await"
    /\ pending = <<>>
    /\ LET loop == loops[l]
           currentLog == Append(loop.currentLog, Entry(loop.role, TRUE))
       IN /\ log' = currentLog
          /\ loops' = [loops EXCEPT ![l] = [loop EXCEPT !.currentLog = currentLog, !.pc = "select"]]
          /\ running' = running
    /\ UNCHANGED <<rendered, systemVars, strategyVars, stateVars, phaseVars, analyzerVars>>

\* callAgent throws in smart mode: the catch block appends an error entry
\* for the speaker and counts it.
smartCallAgentFails(l) ==
    /\ ~SyncRunning
    /\ l \in 1..Len(loops)
    /\ loops[l].mode = "smart"
    /\ loops[l].pc = "await"
    /\ pending = <<>>
    /\ LET loop == loops[l]
           currentLog == Append(loop.currentLog, Entry(loop.role, TRUE))
           after == NextUtterance([loop EXCEPT !.currentLog = currentLog])
       IN /\ log' = currentLog
          /\ loops' = [loops EXCEPT ![l] = after]
          /\ running' = IF after.pc = "done" THEN FALSE ELSE running
    /\ UNCHANGED <<rendered, systemVars, strategyVars, stateVars, phaseVars, analyzerVars>>

NextRun ==
    \/ \E mode \in {"classic", "smart"}, adaptive \in BOOLEAN, order \in Orders,
          turns \in 1..MaxTurns :
          startConversation(mode, adaptive, order, turns)
    \/ \E l \in 1..Len(loops), explore \in BOOLEAN : stepSelect(l, explore)
    \/ \E l \in 1..Len(loops), overall \in Scores, strategy \in Strategies :
          callAgentReturns(l, overall, strategy)
    \/ \E l \in 1..Len(loops) : callAgentFails(l)
    \/ \E l \in 1..Len(loops), coin \in BOOLEAN : smartSelectSpeaker(l, coin)
    \/ \E l \in 1..Len(loops), pick \in RoleKey, explore \in BOOLEAN :
          smartStepSelect(l, pick, explore)
    \/ \E l \in 1..Len(loops), reply \in Replies, overall \in Scores, strategy \in Strategies :
          smartCallAgentReturns(l, reply, overall, strategy)
    \/ \E l \in 1..Len(loops) : smartCallAgentFails(l)
    \/ \E i \in 1..Len(pending) : tabResume(i)
    \/ Render

SpecRun == InitRun /\ [][NextRun]_vars

\* ======================================================================
\* DialogueTab: user ratings during a conversation (handleUserRating)
\* (src/src/components/DialogueTab.tsx)
\* ======================================================================
SeedRatings == 42        \* five-star ratings of the moderator's baseline so far
MaxRatings == 1          \* ratings are given while the experiment log is shorter

\* userFeedback.rating: one, three or five stars
Ratings == {1, 3, 5}

\* The variant after its first n >= 2 experiments, all five-star ratings,
\* have been booked on it: the average of n scores of 1 is 1 and the
\* radicand of the confidence interval, p * (1 - p) / n, is 0.
RatedVariant(v, n) ==
    [v EXCEPT !.performance = [totalUses |-> n, avgQualityScore |-> <<1, 1>>,
                               confidenceInterval |-> <<0, 1>>],
              !.experimentCount = n]

\* The mounted system after n five-star ratings of the moderator's baseline,
\* one per millisecond: recordExperiment books each on the ledger and every
\* third adds a mutant child to the end of the array (no improvement attempt
\* is made at this score, and the unrated children do not replace the best).
Rated(n) ==
    LET base == Mounted.currentBest["director"]
        children == n \div 3
    IN [heap |-> [i \in 1..(3 + children) |->
                    IF i = base THEN RatedVariant(Mounted.heap[base], n)
                    ELSE IF i <= 3 THEN Mounted.heap[i]
                    ELSE mutateVariant(Mounted.heap[base], 3 * (i - 3))],
        variants |-> [Mounted.variants EXCEPT
                         !["director"] = @ \o [k \in 1..children |-> 3 + k]],
        currentBest |-> Mounted.currentBest]

\* The component some time into its life: the moderator's population has
\* reached maxVariants and the log has been cleared.
InitRating ==
    /\ config = TabConfig
    /\ LET st == Rated(SeedRatings)
       IN /\ heap = st.heap
          /\ variants = st.variants
          /\ currentBest = st.currentBest
    /\ keys = Mounted.keys
    /\ experiments = <<>>
    /\ pending = <<>>
    /\ now = SeedRatings + 1
    /\ ret = NoRet
    /\ TabInit
    /\ StrategyInit
    /\ StateInit
    /\ PhaseInit
    /\ AnalyzerInit

\* The ids of the variants the user rates in the evolution panel: the first
\* three of every role.
PanelIds ==
    UNION {{heap[variants[r][k]].id : k \in 1..Len(variants[r]) \cap 1..3} : r \in RoleKey}

\* handleUserRating(variantId, rating): the rating is recorded as an
\* experiment with overall = rating / 5; strategy is the mechanism an
\* improvement attempt draws.
handleUserRating(variantId, rating, strategy) ==
    /\ ~SyncRunning
    /\ pending = <<>>
    /\ Len(experiments) < MaxRatings
    /\ variantId \in PanelIds
    /\ recordExperimentCall(variantId, (rating * ScoreScale) \div 5, strategy)
    /\ UNCHANGED <<config, keys, now, ret, hostVars>>

\* One conversation with adaptive prompts is started.
startRatedConversation(mode, order, turns) ==
    /\ loops = <<>>
    /\ startConversation(mode, TRUE, order, turns)

NextRating ==
    \/ \E mode \in {"classic", "smart"}, order \in Orders, turns \in 1..MaxTurns :
          startRatedConversation(mode, order, turns)
    \/ \E l \in 1..Len(loops), explore \in BOOLEAN : stepSelect(l, explore)
    \/ \E l \in 1..Len(loops), overall \in Scores, strategy \in Strategies :
          callAgentReturns(l, overall, strategy)
    \/ \E l \in 1..Len(loops) : callAgentFails(l)
    \/ \E l \in 1..Len(loops), coin \in BOOLEAN : smartSelectSpeaker(l, coin)
    \/ \E l \in 1..Len(loops), pick \in RoleKey, explore \in BOOLEAN :
          smartStepSelect(l, pick, explore)
    \/ \E l \in 1..Len(loops), overall \in Scores, strategy \in Strategies :
          smartCallAgentReturns(l, [len |-> 100, words |-> TopicWords], overall, strategy)
    \/ \E l \in 1..Len(loops) : smartCallAgentFails(l)
    \/ \E variantId \in PanelIds, rating \in Ratings, strategy \in Strategies :
          handleUserRating(variantId, rating, strategy)
    \/ \E i \in 1..Len(pending) : tabResume(i)
    \/ Render

SpecRating == InitRating /\ [][NextRating]_vars

\* ======================================================================
\* exportState / importState
\* (src/src/lib/prompt-evolution/AdaptivePromptSystem.ts)
\* ======================================================================
MaxExports == 1          \* exportState calls in a behaviour
MaxImports == 1          \* importState calls in a behaviour

InitState ==
    /\ config = Config(2, TRUE)
    /\ SystemInit
    /\ TabInit
    /\ StrategyInit
    /\ StateInit
    /\ PhaseInit
    /\ AnalyzerInit

\* What a container object of the system holds now: the variants Map (its
\* arrays and key order), the currentBest Map or the experiments array.
Container(ref) ==
    CASE ref = "this.variants" -> [arrays |-> variants, keys |-> keys]
      [] ref = "this.currentBest" -> currentBest
      [] OTHER -> experiments

\* The populations, current-best variants and experiment log reachable from
\* three containers, variant objects resolved to their present values.
Deep(vmap, cbmap, exps) ==
    [variants |-> [r \in RoleKey |->
                      [i \in 1..Len(vmap.arrays[r]) |-> heap[vmap.arrays[r][i]]]],
     keys |-> vmap.keys,
     currentBest |-> [r \in RoleKey |-> IF cbmap[r] = 0 THEN <<>> ELSE <<heap[cbmap[r]]>>],
     experiments |-> exps]

\* The state of the system as a caller can observe it.
DeepState == Deep([arrays |-> variants, keys |-> keys], currentBest, experiments)

\* The contents of a value returned by exportState, read now.
Contents(value) ==
    Deep(Container(value.variants), Container(value.currentBest), Container(value.experiments))

\* exportState returns the system's own Maps and array, not copies.
exportState ==
    /\ ret = NoRet
    /\ Len(exported) < MaxExports
    /\ exported' = Append(exported, [variants |-> "this.variants",
                                     currentBest |-> "this.currentBest",
                                     experiments |-> "this.experiments"])
    /\ snapshot' = Append(snapshot, DeepState)
    /\ UNCHANGED <<imported, systemVars, tabVars, strategyVars, phaseVars, analyzerVars>>

\* Mutant: current-best is not restored but reset to an empty Map.
importState_FreshBest(k) ==
    /\ ret = NoRet
    /\ k \in 1..Len(exported)
    /\ Len(imported) < MaxImports
    /\ variants' = Container(exported[k].variants).arrays
    /\ keys' = Container(exported[k].variants).keys
    /\ currentBest' = [r \in RoleKey |-> 0]
    /\ experiments' = Container(exported[k].experiments)
    /\ imported' = Append(imported, k)
    /\ UNCHANGED <<config, heap, pending, now, ret, exported, snapshot,
                   tabVars, strategyVars, phaseVars, analyzerVars>>

\* importState(state) with the k-th exported value: the three fields are
\* assigned the objects the value refers to.
importState(k) ==
    /\ ret = NoRet
    /\ k \in 1..Len(exported)
    /\ Len(imported) < MaxImports
    /\ variants' = Container(exported[k].variants).arrays
    /\ keys' = Container(exported[k].variants).keys
    /\ currentBest' = Container(exported[k].currentBest)
    /\ experiments' = Container(exported[k].experiments)
    /\ imported' = Append(imported, k)
    /\ UNCHANGED <<config, heap, pending, now, ret, exported, snapshot,
                   tabVars, strategyVars, phaseVars, analyzerVars>>

NextState ==
    \/ \E role \in RegisterRoles(config) : registerBaselinePrompt(role)
    \/ \E id \in KnownIds, overall \in Scores, strategy \in Strategies :
          recordExperiment(id, overall, strategy)
    \/ \E i \in 1..Len(pending) : checkAndImproveResume(i)
    \/ exportState
    \/ \E k \in 1..Len(exported) : importState(k)

SpecState == InitState /\ [][NextState]_vars

\* ======================================================================
\* ConversationAnalyzer: the phase of a conversation
\* (src/src/lib/conversation-manager/ConversationAnalyzer.ts)
\* ======================================================================
MaxAnalyzedTurns == 14   \* maxTurns ranges over 0..MaxAnalyzedTurns

InitPhase ==
    /\ config = TabConfig
    /\ SystemInit
    /\ TabInit
    /\ StrategyInit
    /\ StateInit
    /\ AnalyzerInit
    /\ currentTurn = 0
    /\ maxTurns \in 0..MaxAnalyzedTurns
    /\ phase = "none"

\* Mutant: the second threshold returns the peak phase.
determinePhase_PeakEarly(turn, turns) ==
    IF turns = 0 THEN "closing"
    ELSE IF 100 * turn < 15 * turns THEN "opening"
    ELSE IF 100 * turn < 30 * turns THEN "peak"
    ELSE IF 100 * turn < 70 * turns THEN "development"
    ELSE IF 100 * turn < 85 * turns THEN "peak"
    ELSE "closing"

\* progress = currentTurn / maxTurns against 0.15, 0.3, 0.7 and 0.85; a
\* division by 0 gives Infinity or NaN, which is below no threshold.
determinePhase(turn, turns) ==
    IF turns = 0 THEN "closing"
    ELSE IF 100 * turn < 15 * turns THEN "opening"
    ELSE IF 100 * turn < 30 * turns THEN "warm_up"
    ELSE IF 100 * turn < 70 * turns THEN "development"
    ELSE IF 100 * turn < 85 * turns THEN "peak"
    ELSE "closing"

\* analyzeConversation(messages, topic, currentTurn, maxTurns) assigns the
\* phase of the analysis.
analyzePhase ==
    /\ phase /= determinePhase(currentTurn, maxTurns)
    /\ phase' = determinePhase(currentTurn, maxTurns)
    /\ UNCHANGED <<currentTurn, maxTurns, systemVars, tabVars, strategyVars, stateVars, analyzerVars>>

\* The conversation moves on to the next turn.
nextTurn ==
    /\ currentTurn < maxTurns
    /\ currentTurn' = currentTurn + 1
    /\ UNCHANGED <<maxTurns, phase, systemVars, tabVars, strategyVars, stateVars, analyzerVars>>

NextPhase == analyzePhase \/ nextTurn

SpecPhase == InitPhase /\ [][NextPhase]_vars

\* ======================================================================
\* ConversationAnalyzer: metrics and the next-speaker forecast
\* (src/src/lib/conversation-manager/ConversationAnalyzer.ts)
\* ======================================================================
MaxMessages == 3         \* messages handed to the analyzer

\* A text is a sequence of tokens separated by single spaces; a token is a
\* word, followed by a full-width exclamation mark when mark is set. A word
\* is its spelling (w) and its number of characters. No word of the model
\* contains another one.
Word(w, chars) == [w |-> w, chars |-> chars]

Token(word, mark) == [word |-> word, mark |-> mark]

Hum == Word("hum", 3)
Why == Word("why", 3)
Refrigerators == Word("refrigerators", 13)
Dame == Word("dame", 2)      \* a negative word
Nai == Word("nai", 2)        \* a negative word that is also a stop word
Eh == Word("eh", 1)          \* a word of one character
Story == Word("story", 70)   \* a long word off every topic

japaneseStopWords == {Nai}

negativeWords == {Nai, Dame}

\* text.length
RECURSIVE TextLength(_)
TextLength(text) ==
    IF text = <<>> THEN 0
    ELSE Head(text).word.chars + (IF Head(text).mark THEN 1 ELSE 0)
         + (IF Len(text) > 1 THEN 1 ELSE 0) + TextLength(Tail(text))

\* split on the separators, keep the words longer than one character that
\* are no stop words, as a set.
extractKeywords(text) ==
    {text[i].word : i \in {j \in 1..Len(text) :
        text[j].word.chars > 1 /\ text[j].word \notin japaneseStopWords}}

\* (text.match(/[！!？?]/g) || []).length
Exclamations(text) == Cardinality({i \in 1..Len(text) : text[i].mark})

\* The negative words text.includes.
Negatives(text) == Cardinality({n \in negativeWords : \E i \in 1..Len(text) : text[i].word = n})

Texts ==
    {<<Token(Hum, FALSE)>>, <<Token(Story, FALSE)>>, <<Token(Dame, TRUE)>>,
     <<Token(Eh, FALSE), Token(Nai, FALSE)>>}

Topics == {<<>>, <<Token(Hum, FALSE)>>}

AnalyzerMessage == [who : RoleKey, text : Texts]

\* currentTurn and maxTurns of a call.
AnalyzedTurns == {<<0, 20>>, <<10, 20>>, <<15, 20>>, <<20, 20>>}

InitAnalyzer ==
    /\ config = TabConfig
    /\ SystemInit
    /\ TabInit
    /\ StrategyInit
    /\ StateInit
    /\ PhaseInit
    /\ AnalyzerInit

RECURSIVE SumText(_)
SumText(msgs) == IF msgs = <<>> THEN 0 ELSE TextLength(Head(msgs).text) + SumText(Tail(msgs))

\* messages.slice(-10, -5)
Older(msgs) ==
    IF Len(msgs) <= 5 THEN <<>>
    ELSE SubSeq(msgs, Max(1, Len(msgs) - 9), Len(msgs) - 5)

\* The timestamps performAnalysis gives the messages are one Date.now(), so
\* calculateIntervals is 0 and timeMomentum is 0.5.
analyzerMomentum(msgs) ==
    IF Len(msgs) < 3 THEN <<1, 2>>
    ELSE LET recent == Slice(msgs, 5)
             older == Older(msgs)
         IN IF Len(older) = 0 THEN <<7, 10>>
            ELSE LET rs == SumText(recent)
                     os == Max(SumText(older), Len(older))
                     \* recentAvgLength / max(olderAvgLength, 1)
                     ratio == <<rs * Len(older), Len(recent) * os>>
                     lengthMomentum == IF ratio[1] > 2 * ratio[2] THEN <<1, 1>>
                                       ELSE Rat(ratio[1], 2 * ratio[2])
                 IN Rat(2 * lengthMomentum[1] + lengthMomentum[2], 4 * lengthMomentum[2])

RECURSIVE TotalWords(_)
TotalWords(msgs) ==
    IF msgs = <<>> THEN 0
    ELSE Cardinality(extractKeywords(Head(msgs).text)) + TotalWords(Tail(msgs))

RECURSIVE KeywordMatches(_, _)
KeywordMatches(msgs, keywords) ==
    IF msgs = <<>> THEN 0
    ELSE Cardinality(extractKeywords(Head(msgs).text) \cap keywords)
         + KeywordMatches(Tail(msgs), keywords)

\* Mutant: the guard on the empty keyword set is missing.
analyzerTopicDrift_NoKeywordGuard(msgs, keywords) ==
    IF Len(msgs) = 0 THEN <<0, 1>>
    ELSE LET recent == Slice(msgs, 5)
             totalWords == TotalWords(recent)
             keywordMatches == KeywordMatches(recent, keywords)
         IN IF totalWords = 0 THEN <<1, 2>>
            ELSE IF 10 * keywordMatches >= totalWords THEN <<0, 1>>
            ELSE Rat(totalWords - 10 * keywordMatches, totalWords)

\* max(0, min(1, 1 - keywordDensity * 10))
analyzerTopicDrift(msgs, keywords) ==
    IF Len(msgs) = 0 \/ keywords = {} THEN <<0, 1>>
    ELSE LET recent == Slice(msgs, 5)
             totalWords == TotalWords(recent)
             keywordMatches == KeywordMatches(recent, keywords)
         IN IF totalWords = 0 THEN <<1, 2>>
            ELSE IF 10 * keywordMatches >= totalWords THEN <<0, 1>>
            ELSE Rat(totalWords - 10 * keywordMatches, totalWords)

RECURSIVE SumExclamations(_)
SumExclamations(msgs) ==
    IF msgs = <<>> THEN 0 ELSE Exclamations(Head(msgs).text) + SumExclamations(Tail(msgs))

RECURSIVE SumNegatives(_)
SumNegatives(msgs) ==
    IF msgs = <<>> THEN 0 ELSE Negatives(Head(msgs).text) + SumNegatives(Tail(msgs))

\* (lengthTension + exclamationTension + negativeTension) / 3
analyzerTension(msgs) ==
    IF Len(msgs) < 2 THEN <<3, 10>>
    ELSE LET recent == Slice(msgs, 5)
             n == Len(recent)
             lengthTension == IF SumText(recent) < 30 * n THEN 8
                              ELSE IF SumText(recent) < 60 * n THEN 5 ELSE 3
             exclamationCount == IF SumExclamations(recent) > n THEN n ELSE SumExclamations(recent)
             negativeCount == IF SumNegatives(recent) > n THEN n ELSE SumNegatives(recent)
         IN Rat(lengthTension * n + 10 * exclamationCount + 10 * negativeCount, 30 * n)

\* Mutant: the forecast after a tsukkomi utterance keeps the default.
predictNextSpeaker_NoReturnToBoke(msgs, ph, metrics) ==
    LET lastSpeaker == IF Len(msgs) > 0 THEN msgs[Len(msgs)].who ELSE "null"
        base ==
            IF RatLess(<<7, 10>>, metrics.topicDrift) \/ RatLess(<<8, 10>>, metrics.tensionLevel)
            THEN [speaker |-> "director", confidence |-> 900]
            ELSE IF lastSpeaker = "boke" THEN [speaker |-> "tsukkomi", confidence |-> 850]
            ELSE IF lastSpeaker = "director"
                 THEN [speaker |-> IF Count(msgs, "boke") < Count(msgs, "tsukkomi")
                                   THEN "boke" ELSE "tsukkomi",
                       confidence |-> 700]
            ELSE [speaker |-> "boke", confidence |-> 500]
        scaled == IF ph = "opening" THEN (base.confidence * 9) \div 10
                  ELSE IF ph = "peak" THEN (base.confidence * 11) \div 10
                  ELSE base.confidence
    IN [speaker |-> base.speaker, confidence |-> IF scaled > 1000 THEN 1000 ELSE scaled]

\* The forecast; confidence in thousandths.
predictNextSpeaker(msgs, ph, metrics) ==
    LET lastSpeaker == IF Len(msgs) > 0 THEN msgs[Len(msgs)].who ELSE "null"
        base ==
            IF RatLess(<<7, 10>>, metrics.topicDrift) \/ RatLess(<<8, 10>>, metrics.tensionLevel)
            THEN [speaker |-> "director", confidence |-> 900]
            ELSE IF lastSpeaker = "boke" THEN [speaker |-> "tsukkomi", confidence |-> 850]
            ELSE IF lastSpeaker = "tsukkomi" THEN [speaker |-> "boke", confidence |-> 800]
            ELSE IF lastSpeaker = "director"
                 THEN [speaker |-> IF Count(msgs, "boke") < Count(msgs, "tsukkomi")
                                   THEN "boke" ELSE "tsukkomi",
                       confidence |-> 700]
            ELSE [speaker |-> "boke", confidence |-> 500]
        scaled == IF ph = "opening" THEN (base.confidence * 9) \div 10
                  ELSE IF ph = "peak" THEN (base.confidence * 11) \div 10
                  ELSE base.confidence
    IN [speaker |-> base.speaker, confidence |-> IF scaled > 1000 THEN 1000 ELSE scaled]

\* The metrics and the forecast of a DetailedAnalysis.
DetailedAnalysis(msgs, keywords, turn, turns) ==
    LET metrics == [momentum |-> analyzerMomentum(msgs),
                    topicDrift |-> analyzerTopicDrift(msgs, keywords),
                    tensionLevel |-> analyzerTension(msgs)]
        ph == determinePhase(turn, turns)
    IN [momentum |-> metrics.momentum,
        topicDrift |-> metrics.topicDrift,
        tensionLevel |-> metrics.tensionLevel,
        currentPhase |-> ph,
        nextSpeakerPrediction |-> predictNextSpeaker(msgs, ph, metrics)]

\* A message is added to the log the analyzer is given; the analysis returned
\* before is out of date.
appendMessage(m) ==
    /\ Len(messages) < MaxMessages
    /\ messages' = Append(messages, m)
    /\ analyzed' = NoAnalysis
    /\ UNCHANGED <<topicKeywords, systemVars, tabVars, strategyVars, stateVars, phaseVars>>

\* ConversationAnalyzer.analyzeConversation(messages, topic, currentTurn, maxTurns)
analyzerAnalyzeConversation(topic, turn, turns) ==
    /\ topicKeywords' = extractKeywords(topic)
    /\ currentTurn' = turn
    /\ maxTurns' = turns
    /\ phase' = determinePhase(turn, turns)
    /\ analyzed' = DetailedAnalysis(messages, extractKeywords(topic), turn, turns)
    /\ UNCHANGED <<messages, systemVars, tabVars, strategyVars, stateVars>>

NextAnalyzer ==
    \/ \E m \in AnalyzerMessage : appendMessage(m)
    \/ \E topic \in Topics, t \in AnalyzedTurns : analyzerAnalyzeConversation(topic, t[1], t[2])

SpecAnalyzer == InitAnalyzer /\ [][NextAnalyzer]_vars

\* ======================================================================
\* A three-message conversation on "why refrigerators hum", seen by the
\* manager's Reactive strategy and by the analyzer
\* ======================================================================
ScenarioTopic == <<Token(Why, FALSE), Token(Refrigerators, FALSE), Token(Hum, FALSE)>>

\* topic.toLowerCase().split(/\s+/)
SplitWords(topic) == {topic[i].word : i \in 1..Len(topic)}

\* The introduction of the director.
IntroText == <<Token(Word("intro", 5), FALSE)>>

\* Texts of 35 characters: off the topic, on one topic word, on all of them,
\* and an agitated one.
JokeTexts ==
    {<<Token(Word("joke", 35), FALSE)>>,
     <<Token(Hum, FALSE), Token(Word("joke", 31), FALSE)>>,
     <<Token(Why, FALSE), Token(Refrigerators, FALSE), Token(Hum, FALSE), Token(Refrigerators, FALSE)>>,
     <<Token(Dame, TRUE), Token(Dame, TRUE), Token(Dame, TRUE), Token(Nai, FALSE),
       Token(Word("joke", 20), FALSE)>>,
     <<Token(Hum, TRUE), Token(Dame, TRUE), Token(Dame, TRUE), Token(Nai, FALSE),
       Token(Word("joke", 20), FALSE)>>}

\* Texts of 15 characters.
RebuttalTexts ==
    {<<Token(Word("rebuttal", 15), FALSE)>>,
     <<Token(Hum, FALSE), Token(Word("rebuttal", 11), FALSE)>>,
     <<Token(Dame, TRUE), Token(Word("rebuttal", 11), FALSE)>>}

\* The message as the manager's metrics see it: the length of the text and
\* the topic words recentText.includes.
ManagerMessage(m, topic) ==
    [who |-> m.who,
     len |-> TextLength(m.text),
     words |-> {w \in SplitWords(topic) : \E i \in 1..Len(m.text) : m.text[i].word = w}]

InitScenario ==
    /\ config = TabConfig
    /\ SystemInit
    /\ TabInit
    /\ StateInit
    /\ PhaseInit
    /\ topicKeywords = extractKeywords(ScenarioTopic)
    /\ analyzed = NoAnalysis
    /\ \E joke \in JokeTexts, rebuttal \in RebuttalTexts :
          messages = <<[who |-> "director", text |-> IntroText],
                       [who |-> "boke", text |-> joke],
                       [who |-> "tsukkomi", text |-> rebuttal]>>
    /\ history = [i \in 1..3 |-> ManagerMessage(messages[i], ScenarioTopic)]
    /\ manager = [strategy |-> "reactive", index |-> 0]
    /\ selected = "none"
    /\ selections = 0

\* selectNextSpeaker({topic, history, ...}) of a manager with the Reactive
\* strategy.
scenarioSelectNextSpeaker(coin) ==
    /\ selections < MaxSelections
    /\ selected' = ReactiveSelect(analyzeContext(SplitWords(ScenarioTopic), history), coin)
    /\ selections' = selections + 1
    /\ UNCHANGED <<history, manager, systemVars, tabVars, stateVars, phaseVars, analyzerVars>>

NextScenario ==
    \/ \E coin \in BOOLEAN : scenarioSelectNextSpeaker(coin)
    \/ \E t \in AnalyzedTurns : analyzerAnalyzeConversation(ScenarioTopic, t[1], t[2])

SpecScenario == InitScenario /\ [][NextScenario]_vars

\* ======================================================================
\* Properties
\* ======================================================================
Range(f) == {f[i] : i \in DOMAIN f}

Baselines(h, oids) == {o \in Range(oids) : h[o].isBaseline}

Score(v) == v.performance.avgQualityScore

\* Kinds of step, told apart by what they change.
RecordStep == Len(experiments') = Len(experiments) + 1
ResumeStep == Len(pending') = Len(pending) - 1
RegisterStep == Cardinality(Baselines(heap', [i \in 1..Len(heap') |-> i]))
                    > Cardinality(Baselines(heap, [i \in 1..Len(heap) |-> i]))

\* The variant the experiment logged last was looked up as (0 = not found).
RecordedVariant == findVariantById(heap, variants, keys, experiments'[Len(experiments')].variantId)

\* Variant objects that were in a population once and have been pruned.
Pruned(role) == {o \in 1..Len(heap) : heap[o].roleKey = role /\ o \notin Range(variants[role])}

\* ---------------------------------------------------------------- C1
\* C1: with autoImprove enabled, a population created by one
\* registerBaseline call never holds more than maxVariants variants.
C1_WithinMaxVariants ==
    \A r \in RoleKey :
        (config.autoImprove /\ Cardinality(Baselines(heap, variants[r])) = 1)
            => Len(variants[r]) <= config.maxVariants

\* ---------------------------------------------------------------- C2
\* C2: a baseline that is in a population stays in it, stays a baseline and
\* stays active across every step (pruneWorstVariant never removes it), and
\* every registered role holds an active baseline.
C2_BaselineKept ==
    /\ [](\A r \in Range(keys) :
            \E o \in Range(variants[r]) : heap[o].isBaseline /\ heap[o].isActive)
    /\ [][\A r \in RoleKey : \A o \in Baselines(heap, variants[r]) :
            /\ o \in Range(variants'[r])
            /\ heap'[o].isBaseline
            /\ heap'[o].isActive]_vars

\* A variant has been pruned from a population that still has its baseline.
C2_Witness ==
    \E r \in RoleKey : Pruned(r) /= {} /\ Baselines(heap, variants[r]) /= {}

\* ---------------------------------------------------------------- C3
\* confidenceInterval >= t/100.
ConfidenceAtLeast(ci, t) ==
    ci[2] /= 0 /\ 196 * 196 * ci[1] <= (100 - t) * (100 - t) * ci[2]

\* C3: a recordExperiment step replaces current-best only by a candidate whose
\* score exceeds the incumbent's by at least improvementThreshold and whose
\* confidence reaches confidenceThreshold.
C3_ReplaceOnlyIfBoth ==
    [][\A r \in RoleKey :
        (RecordStep /\ currentBest[r] /= 0 /\ currentBest'[r] /= currentBest[r]) =>
            /\ ~DiffLessPct(Score(heap'[currentBest'[r]]), Score(heap'[currentBest[r]]),
                            config.improvementThreshold)
            /\ ConfidenceAtLeast(heap'[currentBest'[r]].performance.confidenceInterval,
                                 config.confidenceThreshold)]_vars

\* A bred variant has been promoted to current-best.
C3_Witness ==
    \E r \in RoleKey : currentBest[r] /= 0 /\ ~heap[currentBest[r]].isBaseline

\* ---------------------------------------------------------------- C4
\* Some active variant of the role is below minSampleSize.
ColdExists(role) ==
    \E o \in Range(variants[role]) :
        heap[o].isActive /\ heap[o].experimentCount < config.minSampleSize

\* C4 as claimed: whenever an active variant of the role is below
\* minSampleSize, selectPrompt returns such a variant, whatever the draw.
C4_ColdStartAnyDraw ==
    (ret.op = "selectPrompt" /\ ~ret.err /\ ColdExists(ret.role))
        => heap[ret.val].experimentCount < config.minSampleSize

\* C4 amended: whenever an active variant of the role is below minSampleSize
\* and the exploration branch is drawn, selectPrompt returns an active variant
\* of the role that is below minSampleSize.
C4_ColdStartOnExplore ==
    (ret.op = "selectPrompt" /\ ~ret.err /\ ret.draw = "explore" /\ ColdExists(ret.role))
        => /\ ret.val \in Range(variants[ret.role])
           /\ heap[ret.val].isActive
           /\ heap[ret.val].experimentCount < config.minSampleSize

\* Exploration returned a cold variant that is not the first of the array.
C4_Witness ==
    /\ ret.op = "selectPrompt"
    /\ ret.draw = "explore"
    /\ ColdExists(ret.role)
    /\ heap[variants[ret.role][1]].experimentCount >= config.minSampleSize
    /\ heap[ret.val].experimentCount < config.minSampleSize

\* ---------------------------------------------------------------- C5
\* C5: every role with a population has exactly one baseline variant.
C5_OneBaseline ==
    \A r \in RoleKey :
        variants[r] /= <<>> => Cardinality(Baselines(heap, variants[r])) = 1

\* ---------------------------------------------------------------- C6
\* Some other variant of the role scores above 0.6 (a crossover partner).
PartnerExists(h, oids, parent) ==
    \E o \in Range(oids) : h[o].id /= parent.id /\ RatLess(<<3, 5>>, Score(h[o]))

\* The entry of pending whose continuation this step runs.
Resumed(i) ==
    /\ i \in 1..Len(pending)
    /\ CanResume(i)
    /\ pending' = [j \in 1..(Len(pending) - 1) |-> IF j < i THEN pending[j] ELSE pending[j + 1]]

\* The third-experiment mutant is due for the variant when the step ends.
DiversityDue(v) == v.experimentCount >= 3 /\ v.experimentCount % 3 = 0

BreedsChild(role) ==
    \/ /\ Len(pending') = Len(pending) + 1
       /\ pending'[Len(pending')].improved /= <<>>
       /\ pending'[Len(pending')].improved[1].roleKey = role
    \/ /\ Len(heap') > Len(heap)
       /\ heap'[Len(heap')].roleKey = role

\* The non-baseline variant of lowest score has left the population.
LowestPruned(role) ==
    \E w \in Range(variants[role]) :
        /\ ~heap[w].isBaseline
        /\ \A o \in Range(variants[role]) :
              ~heap[o].isBaseline => ~RatLess(Score(heap'[o]), Score(heap'[w]))
        /\ w \notin Range(variants'[role])

\* C7: when recordExperiment breeds a child for a population that holds
\* maxVariants variants, one baseline and the rest bred, the non-baseline
\* variant of lowest score is pruned first and the population never holds more
\* than maxVariants variants afterwards.
C7_PruneBeforeInsert ==
    [][\A r \in RoleKey :
        (/\ RecordStep
         /\ BreedsChild(r)
         /\ Len(variants[r]) = config.maxVariants
         /\ Cardinality(Baselines(heap, variants[r])) = 1
         /\ Len(variants[r]) >= 2) =>
            /\ LowestPruned(r)
            /\ Len(variants'[r]) <= config.maxVariants]_vars

\* ---------------------------------------------------------------- C8
\* C8: no two variants held in the populations share an id (two baselines of
\* a role registered twice are left to C5).
C8_UniqueIds ==
    \A r1, r2 \in RoleKey : \A o1 \in Range(variants[r1]), o2 \in Range(variants[r2]) :
        (o1 /= o2 /\ ~(heap[o1].isBaseline /\ heap[o2].isBaseline))
            => heap[o1].id /= heap[o2].id

\* ---------------------------------------------------------------- C9
\* C9: a recordExperiment call whose variant id matches no variant of any
\* population appends to the experiment log and changes nothing else: no
\* ledger or experimentCount, no population, no current-best, and it starts no
\* improvement attempt.
C9_UnknownIdIgnored ==
    [][(RecordStep
        /\ \A r \in RoleKey : \A o \in Range(variants[r]) :
              heap[o].id /= experiments'[Len(experiments')].variantId) =>
            /\ heap' = heap
            /\ variants' = variants
            /\ currentBest' = currentBest
            /\ pending' = pending
            /\ SubSeq(experiments', 1, Len(experiments)) = experiments]_vars

\* An experiment for an id that no population holds has been logged while a
\* population with a tested variant exists.
C9_Witness ==
    /\ \E i \in 1..Len(experiments) :
          \A o \in 1..Len(heap) : heap[o].id /= experiments[i].variantId
    /\ \E r \in RoleKey : \E o \in Range(variants[r]) : heap[o].experimentCount > 0

\* ---------------------------------------------------------------- C10
\* C10: selectPrompt throws exactly when the role has no variants, which is
\* never the case once the role has been registered; a returned variant is a
\* variant object; the call changes neither populations, current-best nor the
\* experiment log.
C10_SelectFailsOnlyUnregistered ==
    /\ [](ret.op = "selectPrompt" =>
            /\ ret.err <=> variants[ret.role] = <<>>
            /\ ret.role \in Range(keys) => ~ret.err
            /\ ~ret.err => ret.val \in 1..Len(heap))
    /\ [][(ret'.op = "selectPrompt" /\ ret.op /= "selectPrompt") =>
            /\ heap' = heap
            /\ variants' = variants
            /\ currentBest' = currentBest
            /\ experiments' = experiments]_vars

\* selectPrompt has thrown for a role without variants while another role
\* has a population that has been pruned.
C10_Witness ==
    /\ ret.op = "selectPrompt"
    /\ ret.err
    /\ \E r \in RoleKey : Pruned(r) /= {}

\* ---------------------------------------------------------------- C11
\* The await of callAgent of loop l ends in this step.
CallEnds(l) == loops[l].pc = "await" /\ loops'[l].pc /= "await"

\* The entry this step appends to the history of loop l is an error entry.
CallFailed(l) ==
    /\ CallEnds(l)
    /\ Len(loops'[l].currentLog) > Len(loops[l].currentLog)
    /\ loops'[l].currentLog[Len(loops'[l].currentLog)].error

\* C11: a step whose completion call fails appends exactly one entry to the
\* history, an error entry attributed to the role selected for the step, and
\* records no experiment: experiment log, ledgers, populations, current-best
\* and suspended improvements are unchanged; selecting the role and variant
\* at the head of a step changes nothing in the system either, and every call
\* that ends appends one entry for the role of the step.
C11_FailedCallLeavesError ==
    [][\A l \in 1..Len(loops) :
        /\ CallEnds(l) =>
              /\ Len(loops'[l].currentLog) = Len(loops[l].currentLog) + 1
              /\ SubSeq(loops'[l].currentLog, 1, Len(loops[l].currentLog)) = loops[l].currentLog
              /\ loops'[l].currentLog[Len(loops'[l].currentLog)].who = loops[l].role
              /\ log' = loops'[l].currentLog
        /\ CallFailed(l) =>
              /\ loops[l].role = loops[l].order[loops[l].j]
              /\ experiments' = experiments
              /\ heap' = heap
              /\ variants' = variants
              /\ currentBest' = currentBest
              /\ pending' = pending
        /\ (loops[l].pc = "select" /\ loops'[l].pc = "await") =>
              UNCHANGED <<heap, variants, currentBest, experiments, pending>>]_vars

\* With adaptive prompts enabled, a step has recorded an experiment that
\* started an improvement and the next step of the same loop has failed.
C11_Witness ==
    \E l \in 1..Len(loops) :
        /\ loops[l].adaptive
        /\ Len(loops[l].currentLog) >= 3
        /\ ~loops[l].currentLog[2].error
        /\ loops[l].currentLog[3].error
        /\ loops[l].currentLog[3].who = "boke"
        /\ Len(experiments) = 1
        /\ Len(heap) > 3

\* ---------------------------------------------------------------- C12
\* Invocations of startConversation whose loop has not ended.
Active == {l \in 1..Len(loops) : loops[l].pc \in {"select", "await"}}

\* C12: at most one conversation loop is running and at most one completion
\* call is in flight at any time.
C12_OneStepAtATime ==
    /\ Cardinality(Active) <= 1
    /\ Cardinality({l \in 1..Len(loops) : loops[l].pc = "await"}) <= 1

\* ---------------------------------------------------------------- C13
\* The intervention trigger of the Reactive strategy on the metrics of the
\* history: topicDrift > 0.85, tension > 0.9, momentum < 0.2 or more than 10
\* messages since the moderator's last one.
Trigger(h) ==
    LET a == analyzeConversation(h)
    IN \/ 100 * a.topicDrift[1] > 85 * a.topicDrift[2]
       \/ a.tensionLevel > 90
       \/ (a.momentum[2] /= 0 /\ 10 * a.momentum[1] < 2 * a.momentum[2])
       \/ a.turnsSinceDirector > 10

LastSpeaker(h) == h[Len(h)].who

\* The alternation rule after the last speaker of a non-empty history.
Alternates(h, speaker) ==
    /\ LastSpeaker(h) = "boke" => speaker = "tsukkomi"
    /\ LastSpeaker(h) = "tsukkomi" => speaker = "boke"
    /\ LastSpeaker(h) = "director" => speaker \in {"boke", "tsukkomi"}

\* C13 as claimed: under Reactive the moderator (director) is selected if
\* and only if the trigger holds, for every history.
C13_ModeratorIffTrigger ==
    (manager.strategy = "reactive" /\ selected /= "none") =>
        (selected = "director" <=> Trigger(history))

\* C13 amended: for a non-empty history the moderator is selected if and only
\* if the trigger holds, and otherwise the reactor (tsukkomi) follows the
\* initiator (boke), the initiator follows the reactor and one of the two
\* follows the moderator; for the empty history the moderator is selected.
C13_ModeratorIffTriggerOrEmpty ==
    (manager.strategy = "reactive" /\ selected /= "none") =>
        IF history = <<>> THEN selected = "director"
        ELSE /\ selected = "director" <=> Trigger(history)
             /\ ~Trigger(history) => Alternates(history, selected)

\* The moderator has been selected only because more than 10 messages have
\* passed since its last one.
C13_Witness ==
    /\ manager.strategy = "reactive"
    /\ selected = "director"
    /\ analyzeConversation(history).turnsSinceDirector = 11
    /\ analyzeConversation(history).topicDrift = <<0, 1>>
    /\ analyzeConversation(history).momentum = <<1, 1>>
    /\ LastSpeaker(history) = "boke"

\* ---------------------------------------------------------------- C14
\* C14: under Balanced the selected role is never the last speaker of the
\* history and no role other than the last speaker has fewer utterances.
C14_BalancedMinOfOthers ==
    (manager.strategy = "balanced" /\ selected /= "none") =>
        /\ selected \in RoleKey
        /\ history /= <<>> => selected /= LastSpeaker(history)
        /\ \A r \in RoleKey :
              (history = <<>> \/ r /= LastSpeaker(history))
                  => Count(history, selected) <= Count(history, r)

\* Balanced has selected a role although the last speaker has fewer
\* utterances than it.
C14_Witness ==
    /\ manager.strategy = "balanced"
    /\ selected /= "none"
    /\ history /= <<>>
    /\ Count(history, LastSpeaker(history)) < Count(history, selected)

\* ---------------------------------------------------------------- C15
\* C15: the k-th selection of a RoundRobin strategy (k = 0, 1, 2, ...) is the
\* moderator, the initiator, the reactor for k mod 3 = 0, 1, 2, whatever the
\* history is.
C15_RoundRobinCycle ==
    [][(manager.strategy = "round_robin" /\ selections' = selections + 1) =>
        selected' = <<"director", "boke", "tsukkomi">>[(selections % 3) + 1]]_vars

\* The fourth selection has come back to the moderator on a history whose
\* metrics trigger nothing and whose last speaker is the moderator.
C15_Witness ==
    /\ manager.strategy = "round_robin"
    /\ selections = 4
    /\ selected = "director"
    /\ history /= <<>>
    /\ LastSpeaker(history) = "director"
    /\ ~Trigger(history)

\* ---------------------------------------------------------------- C16
\* C16: every bred variant, inserted or still awaiting insertion, has a
\* parent whose generation is below maxGenerations.
C16_NoBreedingPastMaxGenerations ==
    LET bred == {heap[o] : o \in {x \in 1..Len(heap) : ~heap[x].isBaseline}}
                    \cup {pending[i].improved[1] :
                            i \in {x \in 1..Len(pending) : pending[x].improved /= <<>>}}
    IN \A child \in bred : \A p \in 1..Len(heap) :
          heap[p].id = child.parentId => heap[p].generation < config.maxGenerations

\* ---------------------------------------------------------------- C17
\* The improvement attempt queued by this step drew crossover and the role
\* has no other variant scoring above 0.6.
CrossoverWithoutPartner ==
    /\ RecordStep
    /\ Len(pending') = Len(pending) + 1
    /\ LET e == pending'[Len(pending')]
       IN /\ e.strategy = "crossover"
          /\ ~PartnerExists(heap', variants'[heap'[e.variant].roleKey], heap'[e.variant])

\* The continuation run by this step belongs to a crossover without a child.
ResumesChildless(i) ==
    Resumed(i) /\ pending[i].strategy = "crossover" /\ pending[i].improved = <<>>

\* C17 as claimed: a crossover without a partner produces no child, and
\* recordExperiment completes without adding any variant to the population.
C17_NoVariantAdded ==
    [][/\ CrossoverWithoutPartner =>
            /\ pending'[Len(pending')].improved = <<>>
            /\ Len(heap') = Len(heap)
       /\ \A i \in 1..Len(pending) :
            ResumesChildless(i) => (heap' = heap /\ variants' = variants)]_vars

\* C17 amended: a crossover without a partner produces no child and raises
\* no error: the call logs the experiment, suspends and resumes normally, and
\* the population gains no variant from the attempt; the only variant the
\* call may still add is the mutant bred on every third experiment of the
\* variant.
C17_NoChildFromCrossover ==
    [][/\ CrossoverWithoutPartner =>
            /\ pending'[Len(pending')].improved = <<>>
            /\ Len(heap') = Len(heap)
            /\ \A r \in RoleKey : Range(variants'[r]) \subseteq Range(variants[r])
            /\ Len(experiments') = Len(experiments) + 1
       /\ \A i \in 1..Len(pending) :
            ResumesChildless(i) =>
                LET v == heap[pending[i].variant]
                IN IF DiversityDue(v)
                   THEN /\ Len(heap') = Len(heap) + 1
                        /\ heap'[Len(heap')].mutationType = "mutation"
                        /\ heap'[Len(heap')].parentId = v.id
                        /\ variants' = [variants EXCEPT ![v.roleKey] = Append(@, Len(heap'))]
                   ELSE heap' = heap /\ variants' = variants]_vars

\* A crossover drawn for a variant whose only companion scores 0.6 or less
\* has ended without a child.
C17_Witness ==
    \E i \in 1..Len(pending) :
        /\ pending[i].strategy = "crossover"
        /\ pending[i].improved = <<>>
        /\ Len(variants[heap[pending[i].variant].roleKey]) >= 2

\* ---------------------------------------------------------------- C18
\* This step is an importState call with the k-th exported value.
ImportStep(k) == Len(imported') = Len(imported) + 1 /\ imported'[Len(imported')] = k

\* C18: exportState changes nothing and returns the present populations,
\* current-best map and experiment log; importState of a value whose contents
\* are still the state at export leaves variants per role, current-best and
\* experiment log as they were before the round trip, and does not touch the
\* variant objects or the suspended improvements.
C18_RoundTrip ==
    [][/\ Len(exported') = Len(exported) + 1 =>
            /\ DeepState' = DeepState
            /\ snapshot'[Len(snapshot')] = DeepState
       /\ \A k \in 1..Len(exported) :
            (ImportStep(k) /\ DeepState = snapshot[k]) =>
                /\ DeepState' = snapshot[k]
                /\ heap' = heap
                /\ pending' = pending]_vars

\* A round trip has been made on a population that holds a bred variant, at
\* least two logged experiments, and is as it was when exported.
C18_Witness ==
    /\ imported /= <<>>
    /\ DeepState = snapshot[imported[1]]
    /\ Len(experiments) >= 2
    /\ \E r \in RoleKey : Len(variants[r]) >= 2

\* ---------------------------------------------------------------- C19
\* Only recordExperiment calls and their continuations have changed the
\* system since the k-th value was exported: no baseline has been registered.
OnlyRecordedSince(k) ==
    \A r \in RoleKey :
        Cardinality(Baselines(heap, variants[r]))
            = Cardinality({i \in 1..Len(snapshot[k].variants[r]) :
                              snapshot[k].variants[r][i].isBaseline})

\* C19: the contents of an exported value are not changed by recordExperiment
\* calls made after the export, and importState of the value restores
\* variants, current-best and experiment log to what they were at export.
C19_ImportRestoresSnapshot ==
    [][\A k \in 1..Len(exported) :
        (ImportStep(k) /\ OnlyRecordedSince(k)) =>
            /\ Contents(exported[k]) = snapshot[k]
            /\ DeepState' = snapshot[k]]_vars

\* ---------------------------------------------------------------- C20
\* Rank of a phase in the order opening < warm-up < development < peak <
\* closing (0 before the first analysis).
Rank(ph) ==
    CASE ph = "opening" -> 1
      [] ph = "warm_up" -> 2
      [] ph = "development" -> 3
      [] ph = "peak" -> 4
      [] ph = "closing" -> 5
      [] OTHER -> 0

\* C20: for a fixed maxTurns > 0 the phase assigned by the analysis never
\* moves back in the order opening < warm-up < development < peak < closing
\* while currentTurn goes from 0 to maxTurns, and the phases of any two turns
\* are ordered like the turns.
C20_PhaseMonotonic ==
    /\ [][maxTurns > 0 => Rank(phase') >= Rank(phase)]_vars
    /\ [](maxTurns > 0 =>
            \A t \in 0..currentTurn :
                Rank(determinePhase(t, maxTurns)) <= Rank(determinePhase(currentTurn, maxTurns)))

\* The analysis of the last turn of a conversation long enough to pass
\* through all five phases has assigned the closing phase.
C20_Witness ==
    /\ maxTurns = 14
    /\ currentTurn = maxTurns
    /\ phase = "closing"
    /\ {determinePhase(t, maxTurns) : t \in 0..maxTurns}
          = {"opening", "warm_up", "development", "peak", "closing"}

\* ---------------------------------------------------------------- C21
\* topicDrift > 0.7 or tensionLevel > 0.8 in the analysis returned.
ForecastTrigger ==
    \/ RatLess(<<7, 10>>, analyzed.topicDrift)
    \/ RatLess(<<8, 10>>, analyzed.tensionLevel)

\* The confidence after the phase adjustment, in thousandths.
PhaseScaled(base, ph) ==
    IF ph = "opening" THEN (base * 9) \div 10
    ELSE IF ph = "peak" THEN (base * 11) \div 10
    ELSE base

\* C21: the forecast of an analysis is the director with base confidence 0.9
\* exactly when topicDrift > 0.7 or tension > 0.8; otherwise tsukkomi (0.85)
\* after a boke utterance, boke (0.8) after a tsukkomi utterance, and after a
\* director utterance the one of boke and tsukkomi with fewer utterances
\* (0.7); the confidence is the base times 0.9 in the opening phase and times
\* 1.1 in the peak phase, and never exceeds 1.
C21_Forecast ==
    analyzed /= NoAnalysis =>
        LET f == analyzed.nextSpeakerPrediction
            last == IF Len(messages) > 0 THEN LastSpeaker(messages) ELSE "null"
            bokes == Count(messages, "boke")
            tsukkomis == Count(messages, "tsukkomi")
            ph == analyzed.currentPhase
        IN /\ (f.speaker = "director") <=> ForecastTrigger
           /\ ForecastTrigger => f.confidence = PhaseScaled(900, ph)
           /\ (~ForecastTrigger /\ last = "boke") =>
                 (f.speaker = "tsukkomi" /\ f.confidence = PhaseScaled(850, ph))
           /\ (~ForecastTrigger /\ last = "tsukkomi") =>
                 (f.speaker = "boke" /\ f.confidence = PhaseScaled(800, ph))
           /\ (~ForecastTrigger /\ last = "director") =>
                 /\ f.speaker \in {"boke", "tsukkomi"}
                 /\ (bokes < tsukkomis => f.speaker = "boke")
                 /\ (tsukkomis < bokes => f.speaker = "tsukkomi")
                 /\ f.confidence = PhaseScaled(700, ph)
           /\ f.confidence <= 1000

\* In the peak phase, after tsukkomi answered a director utterance, a calm
\* on-topic conversation is forecast to go back to boke at 0.8 * 1.1.
C21_Witness ==
    /\ analyzed /= NoAnalysis
    /\ ~ForecastTrigger
    /\ Len(messages) = 3
    /\ messages[2].who = "director"
    /\ LastSpeaker(messages) = "tsukkomi"
    /\ analyzed.currentPhase = "peak"
    /\ analyzed.nextSpeakerPrediction = [speaker |-> "boke", confidence |-> 880]

\* ---------------------------------------------------------------- C23
\* C23: the analysis of a history of fewer than 3 messages has momentum 0.5,
\* and the analysis of any history under an empty topic keyword set, and of
\* the empty history, has topicDrift 0.
C23_NeutralDefaults ==
    analyzed /= NoAnalysis =>
        /\ Len(messages) < 3 => analyzed.momentum = <<1, 2>>
        /\ (topicKeywords = {} \/ Len(messages) = 0) => analyzed.topicDrift = <<0, 1>>

\* Two messages with keywords of their own were analysed under a topic
\* without keywords.
C23_Witness ==
    /\ analyzed /= NoAnalysis
    /\ topicKeywords = {}
    /\ Len(messages) = 2
    /\ TotalWords(messages) > 0
    /\ analyzed.momentum = <<1, 2>>
    /\ analyzed.topicDrift = <<0, 1>>

\* ---------------------------------------------------------------- C22
\* The Reactive strategy's intervention check on the history.
Intervenes == shouldDirectorIntervene(analyzeContext(SplitWords(ScenarioTopic), history))

MentionsTopic == \E i \in 1..Len(messages) : extractKeywords(messages[i].text) \cap topicKeywords /= {}

\* No text has an exclamation or question mark.
NoMarks == \A i \in 1..Len(messages) : Exclamations(messages[i].text) = 0

WithId(id) == {j \in 1..Len(heap) : heap[j].id = id}

\* C24: every bred variant is one generation above the variant its parentId
\* refers to, whatever the mechanism; a baseline has generation 1.
C24_GenerationParentPlusOne ==
    \A i \in 1..Len(heap) :
        IF heap[i].isBaseline THEN heap[i].generation = 1
        ELSE \E j \in WithId(heap[i].parentId) :
                heap[i].generation = heap[j].generation + 1

\* C24, amended: a child of mutation or of heuristic repair is one generation
\* above its parent; a child of crossover is one generation above the higher
\* of its parent and the crossover partner, another variant of its role; a
\* baseline has generation 1.
C24_GenerationAboveParents ==
    \A i \in 1..Len(heap) :
        IF heap[i].isBaseline THEN heap[i].generation = 1
        ELSE \E j \in WithId(heap[i].parentId) :
                IF heap[i].mutationType = "crossover"
                THEN \E o \in 1..Len(heap) :
                        /\ heap[o].roleKey = heap[i].roleKey
                        /\ heap[o].id /= heap[j].id
                        /\ heap[i].generation = Max(heap[j].generation, heap[o].generation) + 1
                ELSE heap[i].generation = heap[j].generation + 1

\* A crossover child two generations above its parent, next to children of
\* the other mechanisms.
C24_Witness ==
    /\ \E i \in 1..Len(heap) :
          /\ heap[i].mutationType = "crossover"
          /\ \E j \in WithId(heap[i].parentId) : heap[i].generation = heap[j].generation + 2
    /\ \E i \in 1..Len(heap) : ~heap[i].isBaseline /\ heap[i].mutationType /= "crossover"

\* ---------------------------------------------------------------- C25
\* The mutants bred from the variant object so far (pruned ones included):
\* non-baseline children by mutation that point back to it.
MutantsOf(o) ==
    {c \in 1..Len(heap) :
        /\ heap[c].parentId = heap[o].id
        /\ heap[c].roleKey = heap[o].roleKey
        /\ heap[c].mutationType = "mutation"
        /\ ~heap[c].isBaseline
        /\ heap[c].isActive}

\* C25: each time recordExperiment brings a variant's experimentCount to a
\* positive multiple of 3, one extra mutant child of that variant is added,
\* whatever its score. With no improvement by mutation (mutationRate 0) and
\* no attempt pending, a variant with n experiments therefore has one mutant
\* child per three experiments.
C25_OneMutantPerThird ==
    pending = <<>> =>
        \A r \in RoleKey : \A o \in Range(variants[r]) :
            Cardinality(MutantsOf(o)) = heap[o].experimentCount \div 3

\* ---------------------------------------------------------------- C26
\* C26: a recordExperiment call for the id of a variant of a population
\* appends exactly one entry to the experiment log and raises totalUses and
\* experimentCount of exactly that variant by one; the ledger and the
\* experimentCount of every other variant, of the same role and of other
\* roles, stay as they are.
C26_OnlyThatLedger ==
    [][(RecordStep /\ RecordedVariant /= 0) =>
        LET oid == RecordedVariant
        IN /\ Len(experiments') = Len(experiments) + 1
           /\ SubSeq(experiments', 1, Len(experiments)) = experiments
           /\ heap[oid].id = experiments'[Len(experiments')].variantId
           /\ heap'[oid].performance.totalUses = heap[oid].performance.totalUses + 1
           /\ heap'[oid].experimentCount = heap[oid].experimentCount + 1
           /\ \A o \in 1..Len(heap) :
                 o /= oid =>
                    /\ heap'[o].performance = heap[o].performance
                    /\ heap'[o].experimentCount = heap[o].experimentCount]_vars

\* Two recorded experiments on a variant whose role holds another variant that
\* has none.
C26_Witness ==
    /\ Len(experiments) >= 2
    /\ \E r \in RoleKey : \E o1, o2 \in Range(variants[r]) :
          /\ heap[o1].experimentCount = 2
          /\ heap[o1].performance.totalUses = 2
          /\ heap[o2].experimentCount = 0
          /\ heap[o2].performance.totalUses = 0

TotalSteps(loop) ==
    IF loop.mode = "smart" THEN loop.turns * 3 ELSE loop.turns * Len(loop.order)

\* Steps of a run whose completion call has ended.
Completed(loop) == Calls(loop) - (IF loop.pc = "await" THEN 1 ELSE 0)

RunSpeaker(loop, a) ==
    loop.currentLog[Len(loop.currentLog) - loop.utteranceCount + a].who

\* C28: in smart mode with the reactive strategy no role speaks twice in a
\* turn: two utterances of a run in the same block of three have different
\* speakers.
C28_OncePerTurn ==
    \A l \in 1..Len(loops) :
        (loops[l].mode = "smart" /\ manager.strategy = "reactive") =>
            \A a, b \in 1..loops[l].utteranceCount :
                (a < b /\ (a - 1) \div 3 = (b - 1) \div 3) =>
                    RunSpeaker(loops[l], a) /= RunSpeaker(loops[l], b)

\* ---------------------------------------------------------------- C30
\* The completion call of loop l returns in this step.
CallReturns(l) == CallEnds(l) /\ ~CallFailed(l)

\* C30: the experiment recorded at the end of a successful step with
\* adaptive prompts is booked on the variant selectPrompt returned at the
\* start of the step: its experimentCount and totalUses grow by one.
C30_BookedOnSelectedVariant ==
    [][\A l \in 1..Len(loops) :
        (CallReturns(l) /\ loops[l].adaptive) =>
            LET v == loops[l].variant
            IN /\ heap'[v].experimentCount = heap[v].experimentCount + 1
               /\ heap'[v].performance.totalUses = heap[v].performance.totalUses + 1]_vars

====
